---- MODULE Spec2Model ----
(***************************************************************************)
(* Model of the SOCKS5 proxy of hotspot_socks_proxy.                       *)
(*                                                                         *)
(* One worker process serves connections with one of the two request       *)
(* handlers of the repository:                                             *)
(*   impl = "lib"   : core/lib/socks_handler.py  (SocksHandler)            *)
(*   impl = "proxy" : core/proxy.py              (SocksHandler, the module *)
(*                    cmd/cli.py imports create_proxy_server from)         *)
(* Every accepted connection runs its handler on a thread of its own; the  *)
(* threads share the process-wide ProxyStats.active_connections counter.   *)
(* An action is the code a handler thread runs between two blocking        *)
(* points; what the sockets do (bytes received, short reads, resets,       *)
(* failed sends, bind / resolve / connect results) is chosen by \E.        *)
(***************************************************************************)
EXTENDS Integers, Sequences, FiniteSets, TLC

\* ------------------------------------------------------------------ bounds
MaxConns == 2
\* bytes each peer of a tunnel writes, and the relay buffer (recv(4096) in
\* core/lib, recv(32768) in core/proxy.py) counted in the same unit
MaxPayload == 3
ChunkLen == 2
\* num_processes, and the number of workers that die on their own
NumProcesses == 2
MaxDeaths == 2
\* handler threads of one worker that call DNSResolver.resolve at a time
MaxThreads == 2
\* update_bytes calls followed from a start of the history, and the clock
MaxCalls == 2
MaxTime == 6
Conns == 1..MaxConns

\* ------------------------------------------------- protocol constants (lib)
SOCKS_VERSION == 5
CONNECT_CMD == 1
ADDR_TYPE_IPV4 == 1
ADDR_TYPE_DOMAIN == 3
RESP_SUCCESS == 0
RESP_CMD_NOT_SUPPORTED == 5
RESP_HOST_UNREACHABLE == 4
\* variant: the address-type branch reuses the host-unreachable code
RESP_ADDR_NOT_SUPPORTED_as_unreachable == RESP_HOST_UNREACHABLE
RESP_ADDR_NOT_SUPPORTED == 8
\* variant: failure replies carry the server's own address
DEFAULT_BIND_ADDR_as_server == "192.168.1.100"
DEFAULT_BIND_ADDR == "127.0.0.1"

\* core/proxy.py builds its only failure reply from literals
PROXY_FAILURE_REP == 5
PROXY_FAILURE_ADDR == "0.0.0.0"

\* server_address[0]: the interface IP the worker was started with
server_address_ip == "192.168.1.100"

\* ------------------------------------------------------- input domains
\* greetings <<VER, NMETHODS, METHODS>> and request headers <<VER, CMD, ATYP>>
Greetings == {<<5, 0, <<>>>>, <<5, 1, <<0>>>>, <<5, 2, <<1, 2>>>>, <<4, 1, <<0>>>>}
Headers == {<<5, 1, 1>>, <<5, 1, 3>>, <<5, 1, 4>>, <<5, 2, 1>>, <<4, 1, 3>>}
\* local ports the kernel may give an outbound socket bound with port 0
EphemeralPorts == {258, 40000}
Unread == -1

\* ------------------------------------------------------- wire encoding
\* socket.inet_aton on the dotted quads the handlers pass to it
inet_aton(a) ==
    CASE a = "127.0.0.1" -> <<127, 0, 0, 1>>
      [] a = "0.0.0.0" -> <<0, 0, 0, 0>>
      [] a = "192.168.1.100" -> <<192, 168, 1, 100>>

\* variant: host (little-endian) byte order
PackH_le(port) == <<(port % 65536) % 256, (port % 65536) \div 256>>
\* struct.pack("!H", port): 16 bit, network byte order
PackH(port) == <<(port % 65536) \div 256, (port % 65536) % 256>>

\* the packet built by _send_response
Reply(status, bind_addr, bind_port) ==
    <<SOCKS_VERSION, status, 0, ADDR_TYPE_IPV4>> \o inet_aton(bind_addr) \o PackH(bind_port)

\* ------------------------------------------------------------- state
VARIABLES impl, conn, active_connections
\* one established tunnel and the byte totals of ProxyStats
VARIABLES tunnel, total_bytes_sent, total_bytes_received
\* ProxyStats.bandwidth_history, and every sample update_bytes ever appended
VARIABLES bandwidth_history, log
fwdVars == <<tunnel, total_bytes_sent, total_bytes_received, bandwidth_history, log>>
\* time.time() in whole seconds, and what get_bandwidth returned last: the
\* value, the time of the call and the number of samples appended before it
VARIABLES now, bandwidth
clockVars == <<now, bandwidth>>
\* create_proxy_server: its list of workers, the worker processes, its position
VARIABLES processes, worker, supervisor
supVars == <<processes, worker, supervisor>>
\* DNSResolver: the class-level _resolve_cache, resolver.nameservers of the
\* one dns_resolver object, the resolve() call of each thread, and, per
\* domain, the address the first completed resolve() returned
VARIABLES resolve_cache, nameservers, call, first_result
dnsVars == <<resolve_cache, nameservers, call, first_result>>
\* the proxy_stats object of the main process and of each worker process,
\* the table the dashboard drew last, the process that acted last
VARIABLES main_stats, worker_stats, shown, actor
procVars == <<main_stats, worker_stats, shown, actor>>
\* ProxyStats._lock (0: free, else the thread that holds it), the ProxyStats
\* call each handler thread is in, and the increments of all calls made
VARIABLES lock, thread, applied
lockVars == <<lock, thread, applied>>
\* run_server in one worker process: its position, its arguments, what
\* psutil.net_if_addrs() gives on the machine, and its listening socket
VARIABLES server
vars == <<impl, conn, active_connections, fwdVars, supVars, dnsVars, procVars, clockVars,
          lockVars, server>>

NewConn ==
    [pc |-> "idle", ver |-> Unread, nmethods |-> Unread, mleft |-> <<>>,
     hver |-> Unread, cmd |-> Unread, atyp |-> Unread,
     sent |-> <<>>, trace |-> <<>>,
     remote |-> "none", laddr |-> "none", lport |-> 0,
     broken |-> FALSE, cause |-> "none", exc |-> "none", escaped |-> FALSE,
     resolver |-> "none",
     started |-> 0, ended |-> 0]

\* the two sockets of a tunnel, as forward() names them
Socks == <<"local", "remote">>
other(sock) == IF sock = "local" THEN "remote" ELSE "local"
PerSock(v) == [sock \in {"local", "remote"} |-> v]

\* a tunnel: inq[s] are the bytes that have arrived on s and are not read yet,
\* wrote[s] counts the bytes the peer of s has written, eof[s] says that peer
\* has closed, read[s] are the bytes forward() got from s.recv, written[s] the
\* bytes s.send accepted, closed[s] says the proxy has closed s. relayed is
\* the number of bytes of the chunks passed client->remote and remote->client.
NewTunnel ==
    [pc |-> "none", ready |-> <<>>,
     inq |-> PerSock(<<>>), wrote |-> PerSock(0), eof |-> PerSock(FALSE),
     read |-> PerSock(<<>>), written |-> PerSock(<<>>), closed |-> PerSock(FALSE),
     bytes_sent |-> 0, bytes_received |-> 0, upd |-> <<0, 0>>, relayed |-> <<0, 0>>,
     why |-> "none", err |-> FALSE]

\* every Process object create_proxy_server can make
WorkerIds == 1..(NumProcesses + MaxDeaths)
\* a Process object: "none" (not made yet), "new" (made, start() did not
\* succeed), "alive", "exited"; joined: join() was called on it after it was
\* found dead; term, tjoined, killed: cleanup has called terminate(), then
\* join(), then kill() on it; replaces: the worker it was made to replace;
\* why: how run_server ended; dead_polls: the polls of the supervisor that
\* found it dead
NewWorker ==
    [state |-> "none", args |-> <<>>, replaces |-> 0, joined |-> FALSE,
     term |-> FALSE, tjoined |-> FALSE, killed |-> FALSE,
     why |-> "none", dead_polls |-> 0]
\* create_proxy_server before its first statement
NewSupervisor ==
    [pc |-> "none", i |-> 1, snap |-> <<>>, new |-> 0,
     interrupted |-> FALSE, exc |-> "none", raises |-> FALSE]

\* core/lib/dns_handler.py, lines 20-24
DEFAULT_NAMESERVERS == <<"1.1.1.1", "8.8.8.8", "9.9.9.9">>
\* names a client can ask for; socket.gethostbyname raises UnicodeError for
\* a name with an empty label
Domains == {"a.test", "c..test"}
valid_idna(d) == d # "c..test"
\* addresses a resolver can answer with
Addresses == {"10.0.0.1", "10.0.0.2"}
DnsThreads == 1..MaxThreads
\* one resolution method tried: what was asked, through which nameservers,
\* and the address it gave ("fail": it gave none)
attempt(method, servers, answer) ==
    [method |-> method, servers |-> servers, answer |-> answer]
\* a thread outside resolve(); n: the methods tried by the call so far;
\* last: the latest of them; k: the index of the for loop of
\* _try_alternative_nameservers; known: the address an earlier call had
\* returned for the domain when this call began
NewCall ==
    [pc |-> "idle", domain |-> "none", n |-> 0, last |-> attempt("none", <<>>, "fail"),
     k |-> 0, result |-> "none", exc |-> "none", cause |-> "none", known |-> "none"]
\* DNSResolver.__init__ and the empty class-level cache
NoDns ==
    /\ resolve_cache = [d \in Domains |-> "none"]
    /\ nameservers = DEFAULT_NAMESERVERS
    /\ call = [t \in DnsThreads |-> NewCall]
    /\ first_result = [d \in Domains |-> "none"]

\* the handler threads of one process that call into proxy_stats
StatThreads == 1..MaxThreads
\* a thread outside ProxyStats; op: the method it is in; args: the amounts it
\* adds; field: the attribute its "+=" is at; tmp: the value that "+=" loaded
NewThread == [pc |-> "idle", op |-> "none", args |-> <<>>, field |-> 0, tmp |-> 0]
NoCalls ==
    [calls |-> 0, active_connections |-> 0, total_bytes_sent |-> 0,
     total_bytes_received |-> 0, samples |-> 0, contended |-> FALSE]
\* threading.Lock() of ProxyStats.__init__, no thread in a call
NoThreads ==
    /\ lock = 0
    /\ thread = [t \in StatThreads |-> NewThread]
    /\ applied = NoCalls

\* the worker processes of one create_proxy_server
Workers == 1..NumProcesses
\* ProxyStats.__init__: the counters of a new instance
NewStats ==
    [active_connections |-> 0, total_bytes_sent |-> 0, total_bytes_received |-> 0]
\* "proxy_stats = ProxyStats()" when the module is imported in a process
NoProcs ==
    /\ main_stats = NewStats
    /\ worker_stats = [w \in Workers |-> NewStats]
    /\ shown = <<>>
    /\ actor = 0

\* A specification of one component holds no object of the others: no
\* tunnel is established, create_proxy_server is not called, no resolver is
\* made and no thread is inside resolve() or inside a ProxyStats method,
\* and there are no processes with a proxy_stats of their own.
IdleTunnel == tunnel = <<>>
IdleServer == server = <<>>
IdleSupervisor ==
    /\ processes = <<>>
    /\ worker = <<>>
    /\ supervisor = <<>>
IdleDns ==
    /\ resolve_cache = <<>>
    /\ nameservers = <<>>
    /\ call = <<>>
    /\ first_result = <<>>
IdleThreads ==
    /\ lock = 0
    /\ thread = <<>>
    /\ applied = <<>>
IdleProcs ==
    /\ main_stats = <<>>
    /\ worker_stats = <<>>
    /\ shown = <<>>
    /\ actor = 0

\* ProxyStats.__init__
StatsInit ==
    /\ total_bytes_sent = 0
    /\ total_bytes_received = 0
    /\ bandwidth_history = <<>>
    /\ log = <<>>
    /\ now = 0
    /\ bandwidth = <<>>

Init ==
    /\ impl \in {"lib", "proxy"}
    /\ conn = [c \in Conns |-> NewConn]
    /\ IdleDns
    /\ IdleProcs
    /\ IdleThreads
    /\ active_connections = 0
    /\ IdleTunnel
    /\ IdleServer
    /\ StatsInit
    /\ IdleSupervisor

\* ---------------------------------------------------- record helpers
Ev(s, e) == [s EXCEPT !.trace = Append(@, e)]
Send(s, msg) == [s EXCEPT !.sent = Append(@, msg)]
Broken(s) == [s EXCEPT !.broken = TRUE]
\* an exception caught by the outermost "except Exception" of lib handle()
Raise(s, e) == [s EXCEPT !.exc = e, !.pc = "finally"]
\* an exception leaving handle() of core/proxy.py through its try/finally
Escape(s, e) == [s EXCEPT !.exc = e, !.escaped = TRUE, !.pc = "finally"]

\* remote.getsockname() of a bound outbound socket
getsockname(s) == <<s.laddr, s.lport>>

\* the handler has returned: socketserver closes the client socket and drops
\* the handler object; the outbound socket keeps whatever state it was left in
finish(s) ==
    [NewConn EXCEPT !.pc = "done", !.remote = s.remote, !.escaped = s.escaped,
                    !.started = s.started, !.ended = s.ended + 1]

\* ProxyStats.connection_started / connection_ended, under the lock
connection_started(n) == n + 1
connection_ended(n) == n - 1

\* ------------------------------------------------------ socketserver
\* ThreadingMixIn: accept() and start the handler thread
Accept(c) ==
    /\ conn[c].pc = "idle"
    /\ conn' = [conn EXCEPT ![c].pc = "handle"]
    /\ UNCHANGED <<impl, server, lockVars, clockVars, procVars, dnsVars, active_connections, fwdVars, supVars>>

\* =================================================== core/lib/socks_handler.py
\* variant: the packet is built and never written to the client
send_response_dropped(s, status, bind_addr, bind_port) == s
\* _send_response, lines 72-81
send_response(s, status, bind_addr, bind_port) ==
    Send(s, Reply(status, bind_addr, bind_port))

\* handle(), lines 147-148: only the UI is told; ProxyStats is not
HandleStart(c) ==
    /\ impl = "lib"
    /\ conn[c].pc = "handle"
    /\ conn' = [conn EXCEPT ![c].pc = "negotiate"]
    /\ UNCHANGED <<impl, server, lockVars, clockVars, procVars, dnsVars, active_connections, fwdVars, supVars>>

\* variant: the greeting version is not checked
VersionAccepted_any(version) == TRUE
\* _negotiate, line 62
VersionAccepted(version) == version = SOCKS_VERSION

\* one call of recv(n) on the method bytes: it returns what has arrived, at
\* most n bytes; when the last method byte is still on its way ("methods_short")
\* that byte stays in the stream. The result is what is left unread.
recv_methods(io, n, methods) ==
    IF io = "methods_short" /\ n >= 2 THEN SubSeq(methods, n, n) ELSE <<>>

\* _negotiate, lines 58-70; nmethods is a local of _negotiate and is kept only
\* until the next step of the connection, as is mleft (the method bytes the
\* single recv(nmethods) of line 65 left in the stream)
negotiate(s, io, version, n, methods) ==
    IF io = "recv_short" THEN Raise(s, "struct.error")
    ELSE IF io = "recv_reset" THEN Raise(Broken(s), "OSError")
    ELSE LET s1 == Ev([s EXCEPT !.ver = version, !.nmethods = n], "greeting") IN
         IF ~VersionAccepted(version) THEN [s1 EXCEPT !.pc = "finally"]
         ELSE IF io = "send_fail" THEN Raise(Broken(s1), "OSError")
         ELSE [Ev(Send(s1, <<SOCKS_VERSION, 0>>), "greeting_reply")
                   EXCEPT !.mleft = recv_methods(io, n, methods), !.pc = "header"]

Negotiate(c) ==
    /\ impl = "lib"
    /\ conn[c].pc = "negotiate"
    /\ \E s \in {negotiate(conn[c], io, g[1], g[2], g[3]) :
                     io \in {"ok", "recv_short", "methods_short", "recv_reset", "send_fail"}, g \in Greetings} :
           conn' = [conn EXCEPT ![c] = s]
    /\ UNCHANGED <<impl, server, lockVars, clockVars, procVars, dnsVars, active_connections, fwdVars, supVars>>

\* the four header bytes as the handler reads them: the client's VER, CMD, RSV
\* and ATYP, or, when a method byte was left in the stream, that byte followed
\* by the client's VER, CMD and RSV
unpack_header(left, h) ==
    IF left = <<>> THEN h ELSE <<left[1], h[1], 0>>

\* handle(), lines 155-164
read_header(s0, io, version, cmd, atyp) ==
    LET s == [s0 EXCEPT !.nmethods = Unread, !.mleft = <<>>] IN
    IF io = "recv_short" THEN Raise(s, "struct.error")
    ELSE IF io = "recv_reset" THEN Raise(Broken(s), "OSError")
    ELSE LET s1 == Ev([s EXCEPT !.hver = version, !.cmd = cmd, !.atyp = atyp], "header") IN
         IF version # SOCKS_VERSION \/ cmd # CONNECT_CMD
         THEN IF io = "send_fail" THEN Raise(Broken(s1), "OSError")
              ELSE [send_response(s1, RESP_CMD_NOT_SUPPORTED, DEFAULT_BIND_ADDR, 0)
                        EXCEPT !.pc = "finally"]
         ELSE [s1 EXCEPT !.pc = "address"]

ReadHeader(c) ==
    /\ impl = "lib"
    /\ conn[c].pc = "header"
    /\ \E s \in {LET b == unpack_header(conn[c].mleft, h) IN
                     read_header(conn[c], io, b[1], b[2], b[3]) :
                     io \in {"ok", "recv_short", "recv_reset", "send_fail"}, h \in Headers} :
           conn' = [conn EXCEPT ![c] = s]
    /\ UNCHANGED <<impl, server, lockVars, clockVars, procVars, dnsVars, active_connections, fwdVars, supVars>>

\* handle(), lines 193-194: "except OSError" around the address handling
on_oserror(s) ==
    IF s.broken THEN Raise(s, "OSError")
    ELSE [send_response(s, RESP_HOST_UNREACHABLE, DEFAULT_BIND_ADDR, 0) EXCEPT !.pc = "finally"]

\* handle(), lines 168-173, 176-181 and 190-191: address and port
read_address(s, io) ==
    IF s.atyp = ADDR_TYPE_IPV4 THEN
        CASE io = "addr_short" -> on_oserror(s)
          [] io = "recv_reset" -> on_oserror(Broken(s))
          [] io = "port_short" -> Raise(Ev(s, "address"), "struct.error")
          [] OTHER -> [Ev(Ev(s, "address"), "port") EXCEPT !.pc = "connect"]
    ELSE IF s.atyp = ADDR_TYPE_DOMAIN THEN
        CASE io = "addr_short" -> Raise(s, "struct.error")
          [] io = "decode_error" -> Raise(s, "UnicodeDecodeError")
          [] io = "recv_reset" -> on_oserror(Broken(s))
          [] io = "port_short" -> Raise(Ev(s, "address"), "struct.error")
          [] OTHER -> [Ev(Ev(s, "address"), "port") EXCEPT !.pc = "resolve"]
    ELSE
        IF io = "send_fail" THEN on_oserror(Broken(s))
        ELSE [send_response(s, RESP_ADDR_NOT_SUPPORTED, DEFAULT_BIND_ADDR, 0)
                  EXCEPT !.pc = "finally"]

ReadAddress(c) ==
    /\ impl = "lib"
    /\ conn[c].pc = "address"
    /\ \E s \in {read_address(conn[c], io) :
                     io \in {"ok", "addr_short", "port_short", "decode_error", "recv_reset", "send_fail"}} :
           conn' = [conn EXCEPT ![c] = s]
    /\ UNCHANGED <<impl, server, lockVars, clockVars, procVars, dnsVars, active_connections, fwdVars, supVars>>

\* variant: the socket is returned without the bind of line 93, so the kernel
\* picks the local address when connect is called
create_outbound_socket_nobind(s, bindOk, port) ==
    IF bindOk THEN [s EXCEPT !.remote = "unbound", !.laddr = "0.0.0.0", !.lport = port]
    ELSE [s EXCEPT !.remote = "unbound", !.cause = "bind"]
\* _create_outbound_socket: socket(), setsockopt, bind((server_address[0], 0))
create_outbound_socket(s, bindOk, port) ==
    IF bindOk
    THEN [Ev(s, "bind") EXCEPT !.remote = "bound", !.laddr = server_address_ip, !.lport = port]
    ELSE [s EXCEPT !.remote = "unbound", !.cause = "bind"]

\* handle_connect, lines 127-141, up to the call of forward
handle_connect(s, bindOk, port, connOk, sendOk) ==
    LET s1 == create_outbound_socket(s, bindOk, port) IN
    IF ~bindOk THEN [s1 EXCEPT !.exc = "OSError", !.pc = "connect_finally"]
    ELSE IF ~connOk THEN
        LET s2 == [s1 EXCEPT !.remote = "closed", !.cause = "connect"] IN
        IF sendOk
        THEN [send_response(s2, RESP_HOST_UNREACHABLE, DEFAULT_BIND_ADDR, 0)
                  EXCEPT !.pc = "connect_finally"]
        ELSE [Broken(s2) EXCEPT !.exc = "OSError", !.pc = "connect_finally"]
    ELSE
        LET s2 == [Ev(s1, "connect") EXCEPT !.remote = "connected"]
            bound_addr == getsockname(s2) IN
        IF sendOk
        THEN [Ev(Ev(send_response(s2, RESP_SUCCESS, bound_addr[1], bound_addr[2]),
                    "reply_success"), "forward") EXCEPT !.pc = "forward"]
        ELSE [Broken(s2) EXCEPT !.remote = "closed", !.exc = "OSError",
                                !.pc = "connect_finally"]

HandleConnect(c) ==
    /\ impl = "lib"
    /\ conn[c].pc = "connect"
    /\ \E s \in {handle_connect(conn[c], bindOk, port, connOk, sendOk) :
                     bindOk \in BOOLEAN, port \in EphemeralPorts, connOk \in BOOLEAN, sendOk \in BOOLEAN} :
           conn' = [conn EXCEPT ![c] = s]
    /\ UNCHANGED <<impl, server, lockVars, clockVars, procVars, dnsVars, active_connections, fwdVars, supVars>>

\* handle_domain_connection, line 110: the name is looked up with
\* socket.getaddrinfo
getaddrinfo(s) == [s EXCEPT !.resolver = "socket.getaddrinfo"]

\* handle_domain_connection (lines 104-123) and its caller (lines 183-189)
\* dns is what socket.getaddrinfo does: a list of addresses, an empty list,
\* socket.gaierror, or UnicodeError (the idna codec rejects a name with an
\* empty or over-long label, e.g. "a..b", before any lookup is made)
handle_domain_connection(s, bindOk, port, dns, connOk, sendOk) ==
    LET s0 == create_outbound_socket(s, bindOk, port)
        s1 == getaddrinfo(s0) IN
    IF ~bindOk THEN on_oserror(IF sendOk THEN s0 ELSE Broken(s0))
    ELSE IF dns = "unicode_error" THEN Raise([s1 EXCEPT !.cause = "dns"], "UnicodeError")
    ELSE IF dns \in {"gaierror", "empty"} \/ ~connOk THEN
        LET s2 == [s1 EXCEPT !.cause = IF dns = "addrs" THEN "connect" ELSE "dns"] IN
        IF sendOk
        THEN [send_response(s2, RESP_HOST_UNREACHABLE, DEFAULT_BIND_ADDR, 0)
                  EXCEPT !.pc = "finally"]
        ELSE on_oserror(Broken(s2))
    ELSE
        LET s2 == [Ev(Ev(s1, "resolve"), "connect") EXCEPT !.remote = "connected"]
            bound_addr == getsockname(s2) IN
        IF sendOk
        THEN [Ev(Ev(send_response(s2, RESP_SUCCESS, bound_addr[1], bound_addr[2]),
                    "reply_success"), "forward") EXCEPT !.pc = "forward"]
        ELSE on_oserror(Broken(s2))

HandleDomainConnection(c) ==
    /\ impl = "lib"
    /\ conn[c].pc = "resolve"
    /\ \E s \in {handle_domain_connection(conn[c], bindOk, port, dns, connOk, sendOk) :
                     bindOk \in BOOLEAN, port \in EphemeralPorts, dns \in {"addrs", "empty", "gaierror", "unicode_error"}, connOk \in BOOLEAN, sendOk \in BOOLEAN} :
           conn' = [conn EXCEPT ![c] = s]
    /\ UNCHANGED <<impl, server, lockVars, clockVars, procVars, dnsVars, active_connections, fwdVars, supVars>>

\* forward (lines 202-221) returns: idle timeout, peer closed, or a socket
\* error it caught itself; it closes neither socket
forward_return(s, why) ==
    [Ev(s, why) EXCEPT !.pc = IF s.atyp = ADDR_TYPE_IPV4 THEN "connect_finally" ELSE "finally"]

ForwardReturn(c) ==
    /\ impl = "lib"
    /\ conn[c].pc = "forward"
    /\ \E s \in {forward_return(conn[c], why) :
                     why \in {"timeout", "eof", "error"}} :
           conn' = [conn EXCEPT ![c] = s]
    /\ UNCHANGED <<impl, server, lockVars, clockVars, procVars, dnsVars, active_connections, fwdVars, supVars>>

\* handle_connect, lines 142-143: finally: proxy_stats.connection_ended()
HandleConnectFinally(c) ==
    /\ impl = "lib"
    /\ conn[c].pc = "connect_finally"
    /\ active_connections' = connection_ended(active_connections)
    /\ conn' = [conn EXCEPT ![c].ended = @ + 1, ![c].pc = "finally"]
    /\ UNCHANGED <<impl, server, lockVars, clockVars, procVars, dnsVars, fwdVars, supVars>>

\* handle, lines 198-200: finally: proxy_stats.connection_ended()
HandleFinally(c) ==
    /\ impl = "lib"
    /\ conn[c].pc = "finally"
    /\ active_connections' = connection_ended(active_connections)
    /\ conn' = [conn EXCEPT ![c] = finish(@)]
    /\ UNCHANGED <<impl, server, lockVars, clockVars, procVars, dnsVars, fwdVars, supVars>>

LibNext(c) ==
    \/ HandleStart(c)
    \/ Negotiate(c)
    \/ ReadHeader(c)
    \/ ReadAddress(c)
    \/ HandleConnect(c)
    \/ HandleDomainConnection(c)
    \/ ForwardReturn(c)
    \/ HandleConnectFinally(c)
    \/ HandleFinally(c)

\* =============================================================== core/proxy.py
\* handle, line 159
ProxyHandleStart(c) ==
    /\ impl = "proxy"
    /\ conn[c].pc = "handle"
    /\ active_connections' = connection_started(active_connections)
    /\ conn' = [conn EXCEPT ![c].started = @ + 1, ![c].pc = "negotiate"]
    /\ UNCHANGED <<impl, server, lockVars, clockVars, procVars, dnsVars, fwdVars, supVars>>

\* handle, lines 162-172: version byte, method count, methods, method reply
proxy_negotiate(s, io, version, n, methods) ==
    IF io = "recv_reset" THEN Escape(Broken(s), "OSError")
    ELSE IF io = "recv_short" THEN [s EXCEPT !.pc = "finally"]
    ELSE LET s1 == Ev([s EXCEPT !.ver = version], "greeting") IN
         IF version # 5 THEN [s1 EXCEPT !.pc = "finally"]
         ELSE IF io = "nmethods_short" THEN Escape(s1, "TypeError")
         ELSE IF io = "send_fail" THEN Escape(Broken([s1 EXCEPT !.nmethods = n]), "OSError")
         ELSE [Ev(Send([s1 EXCEPT !.nmethods = n], <<5, 0>>), "greeting_reply")
                   EXCEPT !.mleft = recv_methods(io, n, methods), !.pc = "header"]

ProxyNegotiate(c) ==
    /\ impl = "proxy"
    /\ conn[c].pc = "negotiate"
    /\ \E s \in {proxy_negotiate(conn[c], io, g[1], g[2], g[3]) :
                     io \in {"ok", "recv_short", "nmethods_short", "methods_short", "recv_reset", "send_fail"}, g \in Greetings} :
           conn' = [conn EXCEPT ![c] = s]
    /\ UNCHANGED <<impl, server, lockVars, clockVars, procVars, dnsVars, active_connections, fwdVars, supVars>>

\* handle, lines 175-189: request header (the version byte is read and never
\* compared), address by type, port
proxy_read_request(s0, io, version, cmd, atyp) ==
    LET s == [s0 EXCEPT !.nmethods = Unread, !.mleft = <<>>] IN
    IF io = "recv_reset" THEN Escape(Broken(s), "OSError")
    ELSE IF io = "recv_short" THEN [s EXCEPT !.pc = "finally"]
    ELSE LET s1 == Ev([s EXCEPT !.hver = version, !.cmd = cmd, !.atyp = atyp], "header") IN
         IF atyp = 1 THEN
             CASE io = "addr_short" -> Escape(s1, "OSError")
               [] io = "port_short" -> Escape(Ev(s1, "address"), "struct.error")
               [] OTHER -> [Ev(Ev(s1, "address"), "port") EXCEPT !.pc = "connect"]
         ELSE IF atyp = 3 THEN
             CASE io = "addr_short" -> Escape(s1, "TypeError")
               [] io = "decode_error" -> Escape(s1, "UnicodeDecodeError")
               [] io = "port_short" -> Escape(Ev(s1, "address"), "struct.error")
               [] OTHER -> [Ev(Ev(s1, "address"), "port") EXCEPT !.pc = "connect"]
         ELSE [s1 EXCEPT !.pc = "finally"]

ProxyReadRequest(c) ==
    /\ impl = "proxy"
    /\ conn[c].pc = "header"
    /\ \E s \in {LET b == unpack_header(conn[c].mleft, h) IN
                     proxy_read_request(conn[c], io, b[1], b[2], b[3]) :
                     io \in {"ok", "recv_short", "addr_short", "port_short", "decode_error", "recv_reset"}, h \in Headers} :
           conn' = [conn EXCEPT ![c] = s]
    /\ UNCHANGED <<impl, server, lockVars, clockVars, procVars, dnsVars, active_connections, fwdVars, supVars>>

\* handle, lines 234-238: "except Exception": the failure reply
proxy_on_exception(s, sendOk) ==
    IF sendOk /\ ~s.broken
    THEN [Send(s, <<5, PROXY_FAILURE_REP, 0, 1>> \o inet_aton(PROXY_FAILURE_ADDR) \o PackH(0))
              EXCEPT !.pc = "finally"]
    ELSE Escape(Broken(s), "OSError")

\* handle, line 221: bound_ip.startswith(wifi_ip.rsplit('.', 1)[0])
same_network(bound_ip, wifi_ip) ==
    SubSeq(inet_aton(bound_ip), 1, 3) = SubSeq(inet_aton(wifi_ip), 1, 3)

\* handle, line 203: the name is looked up with self.resolve_dns
resolve_dns(s) == IF s.atyp = 3 THEN [s EXCEPT !.resolver = "resolve_dns"] ELSE s

\* handle, lines 191-232, up to the call of forward
\* dns is the result of resolve_dns (lines 123-156): "resolved" or "failed"
proxy_connect(s, bindOk, port, dns, connOk, sendOk) ==
    IF s.cmd # 1 THEN [s EXCEPT !.pc = "finally"]
    ELSE IF ~bindOk
    THEN proxy_on_exception([s EXCEPT !.remote = "unbound", !.cause = "bind",
                                      !.exc = "OSError"], sendOk)
    ELSE LET s1 == resolve_dns([Ev(s, "bind") EXCEPT !.remote = "bound",
                                                      !.laddr = server_address_ip,
                                                      !.lport = port]) IN
         IF s.atyp = 3 /\ dns = "failed" THEN [s1 EXCEPT !.cause = "dns", !.pc = "finally"]
         ELSE LET s2 == IF s.atyp = 3 THEN Ev(s1, "resolve") ELSE s1 IN
              IF ~connOk THEN [s2 EXCEPT !.cause = "connect", !.pc = "finally"]
              ELSE LET s3 == [Ev(s2, "connect") EXCEPT !.remote = "connected"]
                       bound_ip == getsockname(s3)[1] IN
                   IF ~same_network(bound_ip, server_address_ip)
                   THEN [s3 EXCEPT !.remote = "closed", !.pc = "finally"]
                   ELSE IF sendOk
                   THEN [Ev(Ev(Send(s3, <<5, 0, 0, 1>> \o inet_aton(bound_ip)
                                          \o PackH(getsockname(s3)[2])),
                               "reply_success"), "forward") EXCEPT !.pc = "forward"]
                   ELSE proxy_on_exception([Broken(s3) EXCEPT !.exc = "OSError"], FALSE)

ProxyConnect(c) ==
    /\ impl = "proxy"
    /\ conn[c].pc = "connect"
    /\ \E s \in {proxy_connect(conn[c], bindOk, port, dns, connOk, sendOk) :
                     bindOk \in BOOLEAN, port \in EphemeralPorts, dns \in {"resolved", "failed"}, connOk \in BOOLEAN, sendOk \in BOOLEAN} :
           conn' = [conn EXCEPT ![c] = s]
    /\ UNCHANGED <<impl, server, lockVars, clockVars, procVars, dnsVars, active_connections, fwdVars, supVars>>

\* forward, lines 243-269: a peer closed (break, both sockets closed), or a
\* recv/send raised, which forward does not catch
proxy_forward_return(s, why, sendOk) ==
    IF why = "eof" THEN [Ev(s, why) EXCEPT !.remote = "closed", !.pc = "finally"]
    ELSE proxy_on_exception([Ev(s, why) EXCEPT !.exc = "OSError"], sendOk)

ProxyForwardReturn(c) ==
    /\ impl = "proxy"
    /\ conn[c].pc = "forward"
    /\ \E s \in {proxy_forward_return(conn[c], why, sendOk) :
                     why \in {"eof", "error"}, sendOk \in BOOLEAN} :
           conn' = [conn EXCEPT ![c] = s]
    /\ UNCHANGED <<impl, server, lockVars, clockVars, procVars, dnsVars, active_connections, fwdVars, supVars>>

\* handle, lines 240-241
ProxyFinally(c) ==
    /\ impl = "proxy"
    /\ conn[c].pc = "finally"
    /\ active_connections' = connection_ended(active_connections)
    /\ conn' = [conn EXCEPT ![c] = finish(@)]
    /\ UNCHANGED <<impl, server, lockVars, clockVars, procVars, dnsVars, fwdVars, supVars>>

ProxyNext(c) ==
    \/ ProxyHandleStart(c)
    \/ ProxyNegotiate(c)
    \/ ProxyReadRequest(c)
    \/ ProxyConnect(c)
    \/ ProxyForwardReturn(c)
    \/ ProxyFinally(c)

Next == \E c \in Conns : Accept(c) \/ LibNext(c) \/ ProxyNext(c)

Spec == Init /\ [][Next]_vars
\* ================================================================= properties
Range(f) == {f[i] : i \in DOMAIN f}
IsReply(m) == Len(m) = 10
\* the handler of c is between its first statement and the end of its cleanup
Running(c) == conn[c].pc \notin {"idle", "handle", "done"}
\* the handler body of c has returned; only handle's finally clause is left
Returned(c) == conn[c].pc = "finally"
Forwarded(c) == "forward" \in Range(conn[c].trace)
WellFormedConnect(c) ==
    /\ conn[c].hver = 5
    /\ conn[c].cmd = 1
    /\ conn[c].atyp \in {1, 3}

\* C1: on every path through lib SocksHandler.handle, proxy_stats.connection_started
\* is called exactly once and proxy_stats.connection_ended exactly once, after it.
C1_StartedOnceEndedOnce ==
    \A c \in Conns :
        impl = "lib" =>
            /\ conn[c].ended <= conn[c].started
            /\ conn[c].pc = "done" => (conn[c].started = 1 /\ conn[c].ended = 1)

\* C2: in every reachable state of a worker running the lib handler,
\* active_connections is >= 0 and equals the number of running handlers.
C2_ActiveEqualsRunning ==
    impl = "lib" =>
        /\ active_connections >= 0
        /\ active_connections = Cardinality({c \in Conns : Running(c)})

\* C3: after a successful greeting, a header with version != 5 or command != 1
\* is answered by the lib handler with REP = 7, and the connection ends with no
\* outbound socket and no forwarding.
C3_CommandNotSupportedIs7 ==
    \A c \in Conns :
        (/\ impl = "lib"
         /\ conn[c].hver # Unread
         /\ (conn[c].hver # 5 \/ conn[c].cmd # 1)) =>
            /\ conn[c].remote = "none"
            /\ ~Forwarded(c)
            /\ (Returned(c) /\ ~conn[c].broken) =>
                   (/\ Len(conn[c].sent) = 2
                    /\ IsReply(conn[c].sent[2])
                    /\ conn[c].sent[2][2] = 7)

\* C4: after a successful greeting and a header with version 5 and command 1,
\* an address type other than 1 and 3 is answered by the lib handler with
\* REP = 8, and the connection ends with no outbound socket and no forwarding.
C4_AddrTypeNotSupportedIs8 ==
    \A c \in Conns :
        (/\ impl = "lib"
         /\ conn[c].hver = 5
         /\ conn[c].cmd = 1
         /\ conn[c].atyp \notin {1, 3}) =>
            /\ conn[c].remote = "none"
            /\ ~Forwarded(c)
            /\ conn[c].pc \in {"address", "finally"}
            /\ (Returned(c) /\ ~conn[c].broken) =>
                   (/\ Len(conn[c].sent) = 2
                    /\ conn[c].sent[1] = <<5, 0>>
                    /\ IsReply(conn[c].sent[2])
                    /\ conn[c].sent[2][2] = 8)

C4_Witness ==
    \E c \in Conns :
        /\ impl = "lib"
        /\ Returned(c)
        /\ conn[c].hver = 5 /\ conn[c].cmd = 1 /\ conn[c].atyp = 4
        /\ Len(conn[c].sent) = 2
        /\ conn[c].sent[2][2] = 8

\* C5: in the lib handler a well-formed CONNECT that fails in name resolution
\* or in the outbound connect is answered with REP 4 or 5 before the
\* connection ends (the client being still reachable).
C5_FailureAlwaysAnswered ==
    \A c \in Conns :
        (/\ impl = "lib"
         /\ Returned(c)
         /\ WellFormedConnect(c)
         /\ conn[c].cause \in {"dns", "connect"}
         /\ ~conn[c].broken) =>
            \E i \in DOMAIN conn[c].sent :
                /\ IsReply(conn[c].sent[i])
                /\ conn[c].sent[i][2] \in {4, 5}

\* C6: in the handler of core/proxy.py every request that passed the greeting
\* and is not served is answered with the failure reply of the taxonomy:
\* 7 for an unsupported command, 8 for an unsupported address type, 4 for a
\* DNS failure, 4 or 5 for a connect failure.
C6_ProxyFailureAlwaysAnswered ==
    \A c \in Conns :
        (/\ impl = "proxy"
         /\ Returned(c)
         /\ conn[c].hver # Unread
         /\ ~conn[c].broken
         /\ \/ conn[c].cmd # 1
            \/ conn[c].atyp \notin {1, 3}
            \/ conn[c].cause \in {"dns", "connect"}) =>
            \E i \in DOMAIN conn[c].sent :
                /\ IsReply(conn[c].sent[i])
                /\ conn[c].sent[i][2] \in
                       (IF conn[c].cmd # 1 THEN {7}
                        ELSE IF conn[c].atyp \notin {1, 3} THEN {8}
                        ELSE IF conn[c].cause = "dns" THEN {4}
                        ELSE {4, 5})

\* C7 (as claimed): every failure reply carries ATYP 1, address 0.0.0.0, port 0.
C7_FailureReplyAllZero ==
    \A c \in Conns : \A i \in DOMAIN conn[c].sent :
        (IsReply(conn[c].sent[i]) /\ conn[c].sent[i][2] # 0) =>
            SubSeq(conn[c].sent[i], 4, 10) = <<1, 0, 0, 0, 0, 0, 0>>

\* C7 (amended): every failure reply carries ATYP 1 and port 0; its address is
\* 127.0.0.1 when sent by the lib handler and 0.0.0.0 when sent by core/proxy.py.
C7_FailureReplyBindAddr ==
    \A c \in Conns : \A i \in DOMAIN conn[c].sent :
        (IsReply(conn[c].sent[i]) /\ conn[c].sent[i][2] # 0) =>
            /\ conn[c].sent[i][1] = 5
            /\ conn[c].sent[i][3] = 0
            /\ conn[c].sent[i][4] = 1
            /\ SubSeq(conn[c].sent[i], 5, 8) =
                   (IF impl = "lib" THEN <<127, 0, 0, 1>> ELSE <<0, 0, 0, 0>>)
            /\ SubSeq(conn[c].sent[i], 9, 10) = <<0, 0>>

C7_Witness ==
    \E c \in Conns :
        /\ impl = "lib"
        /\ conn[c].cause = "connect"
        /\ Len(conn[c].sent) = 2
        /\ conn[c].sent[2] = <<5, 4, 0, 1, 127, 0, 0, 1, 0, 0>>

\* C8: when the outbound connect succeeded, the reply is
\* (5, 0, 0, 1, BND.ADDR, BND.PORT) with the local address and the local port
\* of the connected outbound socket, the port big-endian; no other success
\* reply is ever sent.
C8_SuccessReplyIsLocalEndpoint ==
    \A c \in Conns :
        LET s == conn[c]
            expected == <<5, 0, 0, 1, 192, 168, 1, 100, s.lport \div 256, s.lport % 256>>
        IN  /\ \A i \in DOMAIN s.sent :
                   (IsReply(s.sent[i]) /\ s.sent[i][2] = 0) =>
                       /\ "connect" \in Range(s.trace)
                       /\ s.lport \in EphemeralPorts
                       /\ s.sent[i] = expected
            /\ ("connect" \in Range(s.trace) /\ ~s.broken) =>
                   (Len(s.sent) >= 2 /\ s.sent[2] = expected)

C8_Witness ==
    \E c \in Conns :
        /\ impl = "lib"
        /\ conn[c].pc = "forward"
        /\ conn[c].atyp = 3
        /\ conn[c].remote = "connected"
        /\ conn[c].lport = 258
        /\ conn[c].sent[2] = <<5, 0, 0, 1, 192, 168, 1, 100, 1, 2>>

C10_BadGreetingIsSilent ==
    \A c \in Conns :
        (conn[c].ver # Unread /\ conn[c].ver # 5) =>
            /\ conn[c].sent = <<>>
            /\ conn[c].hver = Unread
            /\ conn[c].trace = <<"greeting">>
            /\ conn[c].remote = "none"
            /\ Returned(c)

C10_Witness ==
    \E c \in Conns :
        /\ impl = "lib"
        /\ conn[c].ver = 4
        /\ Returned(c)
        /\ conn[c].sent = <<>>
\* C11: on a version 5 greeting the lib handler has consumed all NMETHODS
\* method bytes by the time it has answered, and its answer is exactly (5, 0),
\* whatever the methods were (none, 0x00 among them, or 0x00 not among them)
C11_MethodsConsumedAndAccepted ==
    \A c \in Conns :
        (impl = "lib" /\ conn[c].pc = "header")
            => /\ conn[c].sent = <<<<5, 0>>>>
               /\ conn[c].mleft = <<>>

\* e comes before f in the trace tr
Before(tr, e, f) ==
    \E i, j \in 1..Len(tr) : i < j /\ tr[i] = e /\ tr[j] = f

\* a connect to the target was attempted on the connection's outbound socket
ConnectAttempted(c) ==
    "connect" \in Range(conn[c].trace) \/ conn[c].cause = "connect"

\* C12: the lib handler calls connect only on an outbound socket that was
\* bound to (server_address[0], 0) first, on the IPv4 and on the domain path
C12_ConnectOnlyAfterBind ==
    \A c \in Conns :
        (impl = "lib" /\ Running(c) /\ ConnectAttempted(c))
            => /\ "bind" \in Range(conn[c].trace)
               /\ conn[c].laddr = server_address_ip
               /\ conn[c].lport \in EphemeralPorts
               /\ "connect" \in Range(conn[c].trace)
                      => Before(conn[c].trace, "bind", "connect")

C12_Witness ==
    /\ impl = "lib"
    /\ \E c, d \in Conns :
           /\ conn[c].atyp = ADDR_TYPE_IPV4 /\ conn[c].cause = "connect"
           /\ conn[d].atyp = ADDR_TYPE_DOMAIN /\ "connect" \in Range(conn[d].trace)
           /\ conn[d].remote = "connected"

\* ============================================================ forward()
\* The relay of one established tunnel: the step ForwardReturn of a connection,
\* byte by byte. Both handlers have one; impl says which one runs.
Min(a, b) == IF a < b THEN a ELSE b

FwdInit ==
    /\ impl \in {"lib", "proxy"}
    /\ conn = [c \in Conns |-> NewConn]
    /\ IdleDns
    /\ IdleProcs
    /\ IdleThreads
    /\ active_connections = 0
    /\ tunnel = [NewTunnel EXCEPT !.pc = "select"]
    /\ IdleServer
    /\ StatsInit
    /\ IdleSupervisor

\* a socket select() reports readable: data has arrived or the peer has closed
Readable(t, sock) == t.inq[sock] # <<>> \/ t.eof[sock]
\* select.select([local, remote], [], [], ...): the readable ones, in that order
select(t) == SelectSeq(Socks, LAMBDA sock : Readable(t, sock))

\* sock.recv(bufsize): what has arrived, at most one buffer
recv(q) == SubSeq(q, 1, Min(ChunkLen, Len(q)))
\* other.send(data): the number of bytes the socket accepted, all of them or,
\* on a partial write, k of them (at least one, not all)
send(data, out, k) ==
    IF out = "partial" /\ Len(data) >= 2 THEN Min(k, Len(data) - 1) ELSE Len(data)

\* proxy_stats.py line 57: deque(maxlen=60)
HISTORY_MAXLEN == 60
\* variant: a list that keeps every sample
append_sample_unbounded(h, s) == Append(h, s)
\* deque.append on a deque with maxlen: a full deque drops its oldest item
append_sample(h, s) ==
    IF Len(h) = HISTORY_MAXLEN THEN Append(Tail(h), s) ELSE Append(h, s)

\* ProxyStats.update_bytes, lines 61-71
update_bytes(sent, received) ==
    /\ total_bytes_sent' = total_bytes_sent + sent
    /\ total_bytes_received' = total_bytes_received + received
    /\ bandwidth_history' = append_sample(bandwidth_history, <<sent + received, now>>)
    /\ log' = Append(log, <<sent + received, now>>)

\* forward calls update_bytes only after it has relayed data
stats_call(upd) ==
    IF upd = <<0, 0>>
    THEN UNCHANGED <<total_bytes_sent, total_bytes_received, bandwidth_history, log>>
    ELSE update_bytes(upd[1], upd[2])

\* the peer of sock writes its next byte: it arrives on sock
PeerWrite(sock) ==
    /\ tunnel.pc \in {"select", "ready", "returned"}
    /\ ~tunnel.eof[sock]
    /\ tunnel.wrote[sock] < MaxPayload
    /\ tunnel' = [tunnel EXCEPT !.wrote[sock] = @ + 1,
                                !.inq[sock] = Append(@, tunnel.wrote[sock] + 1)]
    /\ UNCHANGED <<impl, server, lockVars, clockVars, procVars, dnsVars, conn, active_connections, total_bytes_sent, total_bytes_received,
                   bandwidth_history, log, supVars>>

\* the peer of sock closes its end
PeerClose(sock) ==
    /\ tunnel.pc \in {"select", "ready", "returned"}
    /\ ~tunnel.eof[sock]
    /\ tunnel' = [tunnel EXCEPT !.eof[sock] = TRUE]
    /\ UNCHANGED <<impl, server, lockVars, clockVars, procVars, dnsVars, conn, active_connections, total_bytes_sent, total_bytes_received,
                   bandwidth_history, log, supVars>>

\* socks_handler.py line 206 and proxy.py line 249: select returns a non-empty r
FwdSelect ==
    /\ tunnel.pc = "select"
    /\ select(tunnel) # <<>>
    /\ tunnel' = [tunnel EXCEPT !.pc = "ready", !.ready = select(tunnel)]
    /\ UNCHANGED <<impl, server, lockVars, clockVars, procVars, dnsVars, conn, active_connections, total_bytes_sent, total_bytes_received,
                   bandwidth_history, log, supVars>>

\* variant: the loop goes on waiting after a timeout
on_timeout_continue(t) == [t EXCEPT !.why = "timeout"]
\* socks_handler.py lines 208-209: "if not r: break", and forward returns
on_timeout(t) == [t EXCEPT !.why = "timeout", !.pc = "returned"]

\* socks_handler.py line 206: the 60 s of select pass with nothing readable.
\* select of proxy.py (line 249) has no timeout argument and never does this.
FwdTimeout ==
    /\ impl = "lib"
    /\ tunnel.pc = "select"
    /\ select(tunnel) = <<>>
    /\ tunnel' = on_timeout(tunnel)
    /\ UNCHANGED <<impl, server, lockVars, clockVars, procVars, dnsVars, conn, active_connections, total_bytes_sent, total_bytes_received,
                   bandwidth_history, log, supVars>>

\* forward() is left without touching either socket
fwd_return(t, why, err) ==
    [t EXCEPT !.why = why, !.err = err, !.pc = "returned", !.ready = <<>>,
              !.bytes_sent = 0, !.bytes_received = 0]

\* the chunk read from sock: taken off what has arrived, added to what was read
take(t, sock) ==
    [t EXCEPT !.inq[sock] = SubSeq(@, Len(recv(t.inq[sock])) + 1, Len(@)),
              !.read[sock] = @ \o recv(t.inq[sock]),
              !.ready = Tail(@)]

\* n bytes of data are accepted by the other socket; the chunk counts as relayed
put(t, sock, data, n) ==
    [t EXCEPT !.written[other(sock)] = @ \o SubSeq(data, 1, n),
              !.relayed = IF sock = "local" THEN <<@[1] + Len(data), @[2]>>
                          ELSE <<@[1], @[2] + Len(data)>>]

\* socks_handler.py lines 211-221: one pass of "for sock in r"
relay(t, sock, out, k) ==
    LET data == recv(t.inq[sock]) IN
    IF out = "recv_error" THEN fwd_return(t, "error", TRUE)
    ELSE IF data = <<>> THEN fwd_return(t, "eof", t.err)
    ELSE IF out = "send_error" THEN fwd_return(take(t, sock), "error", TRUE)
    ELSE [put(take(t, sock), sock, data, send(data, out, k))
              EXCEPT !.upd = <<Len(data), IF sock = "local" THEN 0 ELSE Len(data)>>,
                     !.pc = IF Tail(t.ready) = <<>> THEN "select" ELSE "ready"]

FwdRelay ==
    /\ impl = "lib"
    /\ tunnel.pc = "ready"
    /\ \E out \in {"full", "partial", "recv_error", "send_error"}, k \in 1..ChunkLen :
           LET t1 == relay(tunnel, Head(tunnel.ready), out, k) IN
           /\ stats_call(t1.upd)
           /\ tunnel' = [t1 EXCEPT !.upd = <<0, 0>>]
    /\ UNCHANGED <<impl, server, lockVars, clockVars, procVars, dnsVars, conn, active_connections, supVars>>

\* proxy.py lines 251-266: "if local in r" / "if remote in r", then
\* update_bytes and the reset of the two locals once r is done; a zero-byte
\* read breaks out of the loop to the two close() calls of lines 268-269; an
\* exception of recv or send leaves forward
proxy_relay(t, sock, out, k) ==
    LET data == recv(t.inq[sock]) IN
    IF out = "recv_error" THEN fwd_return(t, "error", TRUE)
    ELSE IF data = <<>> THEN [fwd_return(t, "eof", t.err) EXCEPT !.closed = PerSock(TRUE)]
    ELSE IF out = "send_error" THEN fwd_return(take(t, sock), "error", TRUE)
    ELSE LET t2 == [put(take(t, sock), sock, data, send(data, out, k))
                        EXCEPT !.bytes_sent = IF sock = "local" THEN @ + Len(data) ELSE @,
                               !.bytes_received = IF sock = "remote" THEN @ + Len(data) ELSE @]
         IN IF Tail(t.ready) # <<>> THEN [t2 EXCEPT !.pc = "ready"]
            ELSE [t2 EXCEPT !.upd = <<t2.bytes_sent, t2.bytes_received>>,
                            !.bytes_sent = 0, !.bytes_received = 0, !.pc = "select"]

ProxyFwdRelay ==
    /\ impl = "proxy"
    /\ tunnel.pc = "ready"
    /\ \E out \in {"full", "partial", "recv_error", "send_error"}, k \in 1..ChunkLen :
           LET t1 == proxy_relay(tunnel, Head(tunnel.ready), out, k) IN
           /\ stats_call(t1.upd)
           /\ tunnel' = [t1 EXCEPT !.upd = <<0, 0>>]
    /\ UNCHANGED <<impl, server, lockVars, clockVars, procVars, dnsVars, conn, active_connections, supVars>>

\* handle() returns after forward(): socketserver closes the client socket
\* (shutdown_request). Nothing closes the outbound socket that forward() left
\* open; the runtime closes it if and when it finalizes the socket object.
FwdHandlerReturn ==
    /\ tunnel.pc = "returned"
    /\ \E collected \in BOOLEAN :
           tunnel' = [tunnel EXCEPT !.pc = "finished",
                                    !.closed["local"] = TRUE,
                                    !.closed["remote"] = @ \/ collected]
    /\ UNCHANGED <<impl, server, lockVars, clockVars, procVars, dnsVars, conn, active_connections, total_bytes_sent, total_bytes_received,
                   bandwidth_history, log, supVars>>

\* the steps of the handler thread
FwdStep ==
    \/ FwdSelect
    \/ FwdTimeout
    \/ FwdRelay
    \/ ProxyFwdRelay
    \/ FwdHandlerReturn

FwdNext ==
    \/ FwdStep
    \/ \E sock \in {"local", "remote"} : PeerWrite(sock) \/ PeerClose(sock)

SpecFwd == FwdInit /\ [][FwdNext]_vars
\* the handler thread keeps running and the timer of select fires; the peers
\* owe nothing
SpecFwdFair == SpecFwd /\ WF_vars(FwdStep)

\* C13: what forward() of core/lib has written to one socket is what it has
\* read from the other, byte for byte (as long as no recv or send has failed)
C13_RelayedBytesEqualReadBytes ==
    (impl = "lib" /\ tunnel.why # "error")
        => /\ tunnel.written["remote"] = tunnel.read["local"]
           /\ tunnel.written["local"] = tunnel.read["remote"]

\* C14: once the handler of core/lib has finished after forward(), the client
\* socket and the outbound socket are both closed
C14_BothSocketsClosed ==
    (impl = "lib" /\ tunnel.pc = "finished")
        => tunnel.closed["local"] /\ tunnel.closed["remote"]

\* C15: in forward() of core/lib a readiness wait that ends with nothing
\* readable ends the loop at once: forward returns, and from then on no byte
\* is read or written and no error is reported
C15_TimeoutExitsAtOnce ==
    [][ /\ (impl = "lib" /\ tunnel.pc = "select" /\ select(tunnel) = <<>>
                /\ tunnel'.pc # "select")
            => tunnel'.why = "timeout" /\ tunnel'.pc = "returned"
        /\ (tunnel.why = "timeout" \/ tunnel'.why = "timeout")
            => /\ tunnel'.read = tunnel.read
               /\ tunnel'.written = tunnel.written
               /\ ~tunnel'.err
               /\ tunnel'.pc \in {"returned", "finished"} ]_vars

C15_Witness ==
    /\ impl = "lib"
    /\ tunnel.why = "timeout"
    /\ tunnel.pc = "finished"
    /\ tunnel.read["local"] # <<>>
    /\ tunnel.inq["remote"] # <<>>

\* C16: in core/proxy.py a tunnel on which neither peer sends nor closes is
\* eventually torn down: forward() has ended and both sockets are closed
C16_IdleTunnelTornDown ==
    (impl = "proxy" /\ tunnel.pc = "select" /\ select(tunnel) = <<>>)
        ~> \/ select(tunnel) # <<>>
           \/ /\ tunnel.pc \in {"returned", "finished"}
              /\ tunnel.closed["local"] /\ tunnel.closed["remote"]

\* C17: in core/lib total_bytes_sent is the number of bytes relayed from the
\* client to the remote, total_bytes_received the number relayed from the
\* remote to the client
C17_TotalsMatchDirections ==
    impl = "lib"
        => /\ total_bytes_sent = tunnel.relayed[1]
           /\ total_bytes_received = tunnel.relayed[2]

\* ================================================== create_proxy_server
\* The supervisor of core/lib/proxy_server.py (impl = "lib") and the one of
\* core/proxy.py (impl = "proxy"), with the worker processes they start.
SupInit ==
    /\ impl \in {"lib", "proxy"}
    /\ conn = [c \in Conns |-> NewConn]
    /\ IdleDns
    /\ IdleProcs
    /\ IdleThreads
    /\ active_connections = 0
    /\ IdleTunnel
    /\ IdleServer
    /\ StatsInit
    /\ processes = <<>>
    /\ worker = [w \in WorkerIds |-> NewWorker]
    /\ supervisor = [NewSupervisor EXCEPT !.pc = "spawn"]

\* args=(host, port) of every multiprocessing.Process the supervisor makes
ServerArgs == <<server_address_ip, 9050>>

\* Process.is_alive()
is_alive(w) == worker[w].state = "alive"
\* the Process object the next multiprocessing.Process(...) call makes
NextId == Cardinality({w \in WorkerIds : worker[w].state # "none"}) + 1
\* workers that died without having been told to
Crashed == {w \in WorkerIds : worker[w].state = "exited" /\ ~worker[w].term}

\* multiprocessing.Process(target=run_server, args=(host, port)) and start():
\* the child runs, or start() raises (fork fails) and no child exists
started(startOk, old) ==
    [NewWorker EXCEPT !.state = IF startOk THEN "alive" ELSE "new",
                      !.args = ServerArgs, !.replaces = old]

\* run_server, lines 85-88 and 98-105: the ways a worker ends on its own:
\* is_wifi_interface(host) is false and it returns without serving, or the
\* server is made and later fails or is signalled from outside
exit_reasons(w) ==
    IF worker[w].term THEN {"terminated"} ELSE {"not_wifi", "server_error"}

\* a worker process ends: run_server returns or raises, the process is
\* signalled from outside, or it acts on the supervisor's terminate() or kill()
WorkerDies(w) ==
    /\ supervisor.pc # "stopped"
    /\ is_alive(w)
    /\ worker[w].term \/ Cardinality(Crashed) < MaxDeaths
    /\ \E why \in exit_reasons(w) :
           worker' = [worker EXCEPT ![w].state = "exited", ![w].why = why]
    /\ UNCHANGED <<impl, server, lockVars, clockVars, procVars, dnsVars, conn, active_connections, fwdVars, processes, supervisor>>

\* variant: the loop goes on after the signal
to_cleanup_resumes(s) == [s EXCEPT !.pc = IF @ = "spawn" THEN "cleanup" ELSE "poll", !.i = 1]
\* the finally clause is entered (lib line 167, proxy.py line 367)
to_cleanup(s) == [s EXCEPT !.pc = "cleanup", !.i = 1, !.snap = <<>>]

\* start() raises: lib catches it with "except Exception" (line 164) and
\* returns after the cleanup; proxy.py has no such clause and the error
\* leaves create_proxy_server after the cleanup
on_exception(s) ==
    [to_cleanup(s) EXCEPT !.exc = "OSError", !.raises = impl = "proxy"]

\* the supervision loop is entered; proxy.py iterates over list(processes)
to_loop(s, procs) ==
    [s EXCEPT !.pc = "poll", !.i = 1, !.snap = IF impl = "proxy" THEN procs ELSE <<>>]

\* lib lines 140-145, proxy.py lines 339-346: one pass of the start-up loop
Spawn ==
    /\ supervisor.pc = "spawn"
    /\ \E startOk \in BOOLEAN :
           /\ worker' = [worker EXCEPT ![NextId] = started(startOk, 0)]
           /\ processes' = Append(processes, NextId)
           /\ supervisor' =
                  IF ~startOk THEN on_exception(supervisor)
                  ELSE IF Len(processes') = NumProcesses
                  THEN to_loop(supervisor, processes')
                  ELSE supervisor
    /\ UNCHANGED <<impl, server, lockVars, clockVars, procVars, dnsVars, conn, active_connections, fwdVars>>

\* KeyboardInterrupt in the main process. The handlers of lib line 160 and
\* proxy.py line 365 end the loop; during lib's start-up loop no handler
\* applies and the interrupt leaves create_proxy_server after the cleanup.
Interrupt ==
    /\ supervisor.pc \in {"spawn", "poll", "join", "start", "assign"}
    /\ supervisor' = [to_cleanup(supervisor)
                          EXCEPT !.interrupted = TRUE,
                                 !.raises = impl = "lib" /\ supervisor.pc = "spawn"]
    /\ UNCHANGED <<impl, server, lockVars, clockVars, procVars, dnsVars, conn, active_connections, fwdVars, processes, worker>>

\* lib lines 151-152: the next process of the list is tested
Poll ==
    /\ impl = "lib"
    /\ supervisor.pc = "poll"
    /\ supervisor.i <= Len(processes)
    /\ IF is_alive(processes[supervisor.i])
       THEN /\ supervisor' = [supervisor EXCEPT !.i = @ + 1]
            /\ UNCHANGED worker
       ELSE /\ supervisor' = [supervisor EXCEPT !.pc = "join"]
            /\ worker' = [worker EXCEPT ![processes[supervisor.i]].dead_polls = @ + 1]
    /\ UNCHANGED <<impl, server, lockVars, clockVars, procVars, dnsVars, conn, active_connections, fwdVars, processes>>

\* lib line 159: the list is done, time.sleep(1), and the next round starts
Sleep ==
    /\ impl = "lib"
    /\ supervisor.pc = "poll"
    /\ supervisor.i > Len(processes)
    /\ supervisor' = [supervisor EXCEPT !.i = 1]
    /\ UNCHANGED <<impl, server, lockVars, clockVars, procVars, dnsVars, conn, active_connections, fwdVars, processes, worker>>

\* lib line 154: process.join(timeout=PROCESS_JOIN_TIMEOUT) on the dead worker
Join ==
    /\ impl = "lib"
    /\ supervisor.pc = "join"
    /\ worker' = [worker EXCEPT ![processes[supervisor.i]].joined = TRUE]
    /\ supervisor' = [supervisor EXCEPT !.pc = "start"]
    /\ UNCHANGED <<impl, server, lockVars, clockVars, procVars, dnsVars, conn, active_connections, fwdVars, processes>>

\* lib lines 155-157: new_process is made and started
Start ==
    /\ impl = "lib"
    /\ supervisor.pc = "start"
    /\ \E startOk \in BOOLEAN :
           /\ worker' = [worker EXCEPT
                             ![NextId] = started(startOk, processes[supervisor.i])]
           /\ supervisor' = IF startOk
                             THEN [supervisor EXCEPT !.pc = "assign", !.new = NextId]
                             ELSE on_exception(supervisor)
    /\ UNCHANGED <<impl, server, lockVars, clockVars, procVars, dnsVars, conn, active_connections, fwdVars, processes>>

\* variant: the new worker is added at the end of the list
replace_slot_append(procs, i, new) == Append(procs, new)
\* lib line 158: processes[i] = new_process
replace_slot(procs, i, new) == [procs EXCEPT ![i] = new]

Assign ==
    /\ impl = "lib"
    /\ supervisor.pc = "assign"
    /\ processes' = replace_slot(processes, supervisor.i, supervisor.new)
    /\ supervisor' = [supervisor EXCEPT !.pc = "poll", !.i = @ + 1, !.new = 0]
    /\ UNCHANGED <<impl, server, lockVars, clockVars, procVars, dnsVars, conn, active_connections, fwdVars, worker>>

\* processes.remove(process)
remove(procs, w) == SelectSeq(procs, LAMBDA x : x # w)

\* proxy.py lines 349-350: "while processes" and the copy the for loop walks
ProxyLoopTop ==
    /\ impl = "proxy"
    /\ supervisor.pc = "poll"
    /\ supervisor.i > Len(supervisor.snap)
    /\ supervisor' = IF processes = <<>> THEN to_cleanup(supervisor)
                      ELSE to_loop(supervisor, processes)
    /\ UNCHANGED <<impl, server, lockVars, clockVars, procVars, dnsVars, conn, active_connections, fwdVars, processes, worker>>

\* proxy.py lines 351-363: a live worker is joined for 0.1 s; a dead one is
\* removed from the list, a new one is appended and started, and the dead one
\* is joined
ProxyPoll ==
    /\ impl = "proxy"
    /\ supervisor.pc = "poll"
    /\ supervisor.i <= Len(supervisor.snap)
    /\ LET w == supervisor.snap[supervisor.i] IN
       IF is_alive(w)
       THEN /\ supervisor' = [supervisor EXCEPT !.i = @ + 1]
            /\ UNCHANGED <<processes, worker>>
       ELSE \E startOk \in BOOLEAN :
            /\ processes' = Append(remove(processes, w), NextId)
            /\ worker' = [worker EXCEPT ![NextId] = started(startOk, w),
                                        ![w].joined = startOk,
                                        ![w].dead_polls = @ + 1]
            /\ supervisor' = IF startOk THEN [supervisor EXCEPT !.i = @ + 1]
                              ELSE on_exception(supervisor)
    /\ UNCHANGED <<impl, server, lockVars, clockVars, procVars, dnsVars, conn, active_connections, fwdVars>>

\* lib line 170: "if process.is_alive()"
needs_terminate(w) == is_alive(w)

\* lib lines 169-171, proxy.py lines 368-370: the next process of the list is
\* tested and, if alive, told to terminate; after the last one the function ends
CleanupCheck ==
    /\ supervisor.pc = "cleanup"
    /\ IF supervisor.i > Len(processes)
       THEN /\ supervisor' = [supervisor EXCEPT !.pc = "stopped"]
            /\ UNCHANGED worker
       ELSE IF needs_terminate(processes[supervisor.i])
       THEN /\ worker' = [worker EXCEPT ![processes[supervisor.i]].term = TRUE]
            /\ supervisor' = [supervisor EXCEPT !.pc = "cjoin"]
       ELSE /\ supervisor' = [supervisor EXCEPT !.i = @ + 1]
            /\ UNCHANGED worker
    /\ UNCHANGED <<impl, server, lockVars, clockVars, procVars, dnsVars, conn, active_connections, fwdVars, processes>>

\* variant: kill() follows the wait whatever became of the worker
needs_kill_always(w) == TRUE
\* lib line 173: "if process.is_alive()" after the wait
needs_kill(w) == is_alive(w)

\* lib lines 172-175, proxy.py lines 371-373: the bounded join, then kill()
\* if the worker is still alive
CleanupJoin ==
    /\ supervisor.pc = "cjoin"
    /\ worker' = [worker EXCEPT ![processes[supervisor.i]].tjoined = TRUE,
                                ![processes[supervisor.i]].killed =
                                     needs_kill(processes[supervisor.i])]
    /\ supervisor' = [supervisor EXCEPT !.pc = "cleanup", !.i = @ + 1]
    /\ UNCHANGED <<impl, server, lockVars, clockVars, procVars, dnsVars, conn, active_connections, fwdVars, processes>>

\* the steps of the main process
SupStep ==
    \/ Spawn
    \/ Poll
    \/ Sleep
    \/ Join
    \/ Start
    \/ Assign
    \/ ProxyLoopTop
    \/ ProxyPoll
    \/ CleanupCheck
    \/ CleanupJoin

SupNext ==
    \/ SupStep
    \/ Interrupt
    \/ \E w \in WorkerIds : WorkerDies(w)

SpecSup == SupInit /\ [][SupNext]_vars
\* the main process keeps running; workers need not die and nobody need
\* press Ctrl-C
SpecSupFair == SpecSup /\ WF_vars(SupStep)

\* the supervisor of core/lib is in its supervision loop
InLoop == impl = "lib" /\ supervisor.pc \in {"poll", "join", "start", "assign"}
\* start() succeeded on the Process object w
Started(w) == worker[w].state \in {"alive", "exited"}

C19_DeadWorkerReplaced ==
    \A w \in WorkerIds :
        (/\ worker[w].state = "exited" /\ ~worker[w].term
         /\ supervisor.pc \in {"poll", "join", "start", "assign"})
            ~> \/ supervisor.interrupted
               \/ \E n \in WorkerIds : worker[n].replaces = w /\ Started(n)

C21_LoopLeftOnlyOnSignal ==
    [][(InLoop /\ supervisor'.pc \notin {"poll", "join", "start", "assign"})
          => supervisor'.interrupted]_vars

\* C22: no exception raised during the negotiation (short read or client EOF
\* in the greeting or header, malformed address, socket error, failed send of
\* a reply) leaves SocksHandler.handle: it is caught inside the handler
C22_NegotiationErrorsContained ==
    \A c \in Conns : ~conn[c].escaped

\* the worker that w was made to replace exited at the interface check
FailedAtStart(w) == w # 0 /\ worker[w].why = "not_wifi"

\* C23: when workers exit at the interface check of run_server again and
\* again, the supervisor does not restart them on every poll: a replacement
\* for a replacement that failed in the same way is started only after the
\* dead worker was left waiting for more polls than its predecessor was
C23_RespawnBackedOff ==
    \A n \in WorkerIds :
        (/\ Started(n)
         /\ FailedAtStart(worker[n].replaces)
         /\ FailedAtStart(worker[worker[n].replaces].replaces))
            => worker[worker[n].replaces].dead_polls
                   > worker[worker[worker[n].replaces].replaces].dead_polls

\* ==================================================== DNSResolver.resolve
\* core/lib/dns_handler.py: resolve() called from the threads of one process,
\* which share the class-level cache and the one resolver object.
DnsInit ==
    /\ impl = "lib"
    /\ conn = [c \in Conns |-> NewConn]
    /\ active_connections = 0
    /\ IdleTunnel
    /\ IdleServer
    /\ StatsInit
    /\ IdleSupervisor
    /\ NoDns
    /\ IdleProcs
    /\ IdleThreads

\* the call has tried one more method
tried(c, method, servers, answer) ==
    [c EXCEPT !.n = @ + 1, !.last = attempt(method, servers, answer)]

\* self._resolve_cache[domain] = ip
cache_put(cache, d, ip) == [cache EXCEPT ![d] = ip]
\* "return ip"
returns(c, ip) == [c EXCEPT !.pc = "returned", !.result = ip]
\* lines 115-118: "except Exception as e": DNSResolutionError raised from e
raises(c, e) == [c EXCEPT !.pc = "raised", !.exc = "DNSResolutionError", !.cause = e]

\* resolve() has returned ip to its caller
Completed(t, ip) ==
    first_result' = IF first_result[call[t].domain] = "none"
                    THEN [first_result EXCEPT ![call[t].domain] = ip]
                    ELSE first_result

\* a method found ip: it writes the cache and resolve() returns ip
Found(t, c, ip) ==
    /\ resolve_cache' = cache_put(resolve_cache, c.domain, ip)
    /\ call' = [call EXCEPT ![t] = returns(c, ip)]
    /\ Completed(t, ip)

\* resolve, lines 97-98: the cache check
Resolve(t) ==
    /\ call[t].pc = "idle"
    /\ \E d \in Domains :
           LET c == [NewCall EXCEPT !.domain = d, !.known = first_result[d]] IN
           IF resolve_cache[d] # "none"
           THEN /\ call' = [call EXCEPT ![t] =
                               returns(tried(c, "cache", <<>>, resolve_cache[d]),
                                       resolve_cache[d])]
                /\ first_result' = first_result
           ELSE /\ call' = [call EXCEPT ![t] =
                               [tried(c, "cache", <<>>, "fail") EXCEPT !.pc = "system"]]
                /\ first_result' = first_result
    /\ UNCHANGED <<impl, server, lockVars, clockVars, procVars, conn, active_connections, fwdVars, supVars,
                   resolve_cache, nameservers>>

\* _try_system_dns, lines 40-48: socket.gethostbyname; socket.gaierror gives
\* None, any other exception goes to the "except Exception" of resolve
TrySystem(t) ==
    /\ call[t].pc = "system"
    /\ IF ~valid_idna(call[t].domain)
       THEN /\ call' = [call EXCEPT ![t] =
                           raises(tried(@, "system", <<>>, "fail"), "UnicodeError")]
            /\ UNCHANGED <<resolve_cache, first_result>>
       ELSE \E a \in Addresses \cup {"fail"} :
            LET c == tried(call[t], "system", <<>>, a) IN
            IF a # "fail" THEN Found(t, c, a)
            ELSE /\ call' = [call EXCEPT ![t] = [c EXCEPT !.pc = "configured"]]
                 /\ UNCHANGED <<resolve_cache, first_result>>
    /\ UNCHANGED <<impl, server, lockVars, clockVars, procVars, conn, active_connections, fwdVars, supVars, nameservers>>

\* _try_configured_resolver, lines 50-59: self.resolver.resolve(domain, "A")
\* through whatever resolver.nameservers holds
TryConfigured(t) ==
    /\ call[t].pc = "configured"
    /\ \E a \in Addresses \cup {"fail"} :
           LET c == tried(call[t], "configured", nameservers, a) IN
           IF a # "fail" THEN Found(t, c, a)
           ELSE /\ call' = [call EXCEPT ![t] = [c EXCEPT !.pc = "alt_set", !.k = 1]]
                /\ UNCHANGED <<resolve_cache, first_result>>
    /\ UNCHANGED <<impl, server, lockVars, clockVars, procVars, conn, active_connections, fwdVars, supVars, nameservers>>

\* _try_alternative_nameservers, line 65: self.resolver.nameservers = [nameserver]
AltSet(t) ==
    /\ call[t].pc = "alt_set"
    /\ nameservers' = <<DEFAULT_NAMESERVERS[call[t].k]>>
    /\ call' = [call EXCEPT ![t].pc = "alt_query"]
    /\ UNCHANGED <<impl, server, lockVars, clockVars, procVars, conn, active_connections, fwdVars, supVars,
                   resolve_cache, first_result>>

\* _try_alternative_nameservers, lines 66-71: the query, the cache write, or
\* the next nameserver; after the last one resolve, lines 109-118: the error
AltQuery(t) ==
    /\ call[t].pc = "alt_query"
    /\ \E a \in Addresses \cup {"fail"} :
           LET c == tried(call[t], "nameserver", nameservers, a) IN
           IF a # "fail" THEN Found(t, c, a)
           ELSE /\ call' = [call EXCEPT ![t] =
                               IF c.k < Len(DEFAULT_NAMESERVERS)
                               THEN [c EXCEPT !.pc = "alt_set", !.k = @ + 1]
                               ELSE raises(c, "DNSResolutionError")]
                /\ UNCHANGED <<resolve_cache, first_result>>
    /\ UNCHANGED <<impl, server, lockVars, clockVars, procVars, conn, active_connections, fwdVars, supVars, nameservers>>

\* the caller goes on: the thread is free for its next resolve()
DnsReturn(t) ==
    /\ call[t].pc \in {"returned", "raised"}
    /\ call' = [call EXCEPT ![t] = NewCall]
    /\ UNCHANGED <<impl, server, lockVars, clockVars, procVars, conn, active_connections, fwdVars, supVars,
                   resolve_cache, nameservers, first_result>>

DnsNext ==
    \E t \in DnsThreads :
        \/ Resolve(t)
        \/ TrySystem(t)
        \/ TryConfigured(t)
        \/ AltSet(t)
        \/ AltQuery(t)
        \/ DnsReturn(t)

SpecDns == DnsInit /\ [][DnsNext]_vars

\* the documented order of the methods of resolve()
MethodOrder ==
    <<"cache", "system", "configured", "nameserver", "nameserver", "nameserver">>
\* the nameservers the n-th method of the documented order asks
ServersOf(n) ==
    IF n = 3 THEN DEFAULT_NAMESERVERS
    ELSE IF n > 3 THEN <<DEFAULT_NAMESERVERS[n - 3]>>
    ELSE <<>>

\* C24: every resolve() tries the cache, the system resolver, the configured
\* resolver with its full nameserver list and then each default nameserver on
\* its own, in this order; a method is tried only after the one before it
\* failed, and the value returned is the answer of the first that succeeded
C24_MethodsInOrder ==
    /\ [](\A t \in DnsThreads :
              call[t].n > 0
                  => /\ call[t].n <= Len(MethodOrder)
                     /\ call[t].last.method = MethodOrder[call[t].n]
                     /\ call[t].last.servers = ServersOf(call[t].n))
    /\ [][\A t \in DnsThreads :
              (call[t].n > 0 /\ call'[t].n # call[t].n /\ call'[t].n # 0)
                  => /\ call'[t].n = call[t].n + 1
                     /\ call[t].last.answer = "fail"]_vars
    /\ [](\A t \in DnsThreads :
              call[t].pc = "returned"
                  => /\ call[t].result \in Addresses
                     /\ call[t].result = call[t].last.answer)

\* C25: once a resolve() has returned an address for a domain, every resolve()
\* for that domain begun later returns that address from the cache and asks
\* neither the system resolver nor a nameserver, whichever method produced
\* the first result
C25_LaterCallsReuseFirstResult ==
    \A t \in DnsThreads :
        call[t].known # "none"
            => /\ call[t].pc = "returned"
               /\ call[t].n = 1 /\ call[t].last.method = "cache"
               /\ call[t].result = call[t].known

\* C26: a request with ATYP = 3 has its name resolved through
\* DNSResolver.resolve before the connect, and a request with ATYP = 1 has
\* no name resolved at all
C26_DomainsResolvedByDNSResolver ==
    \A c \in Conns :
        /\ conn[c].atyp = ADDR_TYPE_IPV4 => conn[c].resolver = "none"
        /\ conn[c].resolver \in {"none", "DNSResolver.resolve"}
        /\ (conn[c].atyp = ADDR_TYPE_DOMAIN /\ ConnectAttempted(c))
               => conn[c].resolver = "DNSResolver.resolve"

\* ================================================ proxy_stats per process
\* The module-level proxy_stats object in the main process, which runs the
\* dashboard thread, and in the worker processes, which run the handlers.
ProcInit ==
    /\ impl = "lib"
    /\ conn = [c \in Conns |-> NewConn]
    /\ active_connections = 0
    /\ IdleTunnel
    /\ IdleServer
    /\ StatsInit
    /\ IdleSupervisor
    /\ IdleDns
    /\ NoProcs
    /\ IdleThreads

\* variant: the workers write to the object of the main process
store_stats_shared(w, s) ==
    /\ main_stats' = s
    /\ UNCHANGED worker_stats
\* a handler in worker w assigns to the fields of proxy_stats: the name is a
\* module global, and every process has its own copy of the module
store_stats(w, s) ==
    /\ worker_stats' = [worker_stats EXCEPT ![w] = s]
    /\ UNCHANGED main_stats

\* (sent, received) of the update_bytes calls of forward
ByteArgs ==
    {<<n, 0>> : n \in 1..ChunkLen} \cup {<<0, n>> : n \in 1..ChunkLen}
        \cup {<<n, n>> : n \in 1..ChunkLen}

\* a handler thread of worker w: handle, connection_started
WorkerConnectionStarted(w) ==
    /\ worker_stats[w].active_connections < MaxConns
    /\ store_stats(w, [worker_stats[w] EXCEPT
                          !.active_connections = connection_started(@)])
    /\ actor' = w
    /\ UNCHANGED <<impl, server, lockVars, clockVars, conn, active_connections, fwdVars, supVars, dnsVars, shown>>

\* a handler thread of worker w: forward, update_bytes(sent, received)
WorkerUpdateBytes(w) ==
    /\ \E b \in ByteArgs :
           /\ worker_stats[w].total_bytes_sent + worker_stats[w].total_bytes_received
                  + b[1] + b[2] <= ChunkLen
           /\ store_stats(w, [worker_stats[w] EXCEPT
                                 !.total_bytes_sent = @ + b[1],
                                 !.total_bytes_received = @ + b[2]])
    /\ actor' = w
    /\ UNCHANGED <<impl, server, lockVars, clockVars, conn, active_connections, fwdVars, supVars, dnsVars, shown>>

\* a handler thread of worker w: handle, connection_ended
WorkerConnectionEnded(w) ==
    /\ worker_stats[w].active_connections > 0
    /\ store_stats(w, [worker_stats[w] EXCEPT
                          !.active_connections = connection_ended(@)])
    /\ actor' = w
    /\ UNCHANGED <<impl, server, lockVars, clockVars, conn, active_connections, fwdVars, supVars, dnsVars, shown>>

\* ProxyUI._generate_table in the dashboard thread of the main process: the
\* rows "Active Connections" and "Total Data Transferred"
generate_table(s) ==
    <<s.active_connections, s.total_bytes_sent + s.total_bytes_received>>

Dashboard ==
    /\ shown' = generate_table(main_stats)
    /\ actor' = 0
    /\ UNCHANGED <<impl, server, lockVars, clockVars, conn, active_connections, fwdVars, supVars, dnsVars,
                   main_stats, worker_stats>>

ProcNext ==
    \/ \E w \in Workers :
           \/ WorkerConnectionStarted(w)
           \/ WorkerUpdateBytes(w)
           \/ WorkerConnectionEnded(w)
    \/ Dashboard

SpecProc == ProcInit /\ [][ProcNext]_vars

Prefill(n) == [i \in 1..n |-> <<i, 0>>]

HistInit ==
    /\ impl = "lib"
    /\ conn = [c \in Conns |-> NewConn]
    /\ active_connections = 0
    /\ IdleTunnel
    /\ IdleServer
    /\ IdleSupervisor
    /\ IdleDns
    /\ IdleProcs
    /\ IdleThreads
    /\ \E n \in {0, HISTORY_MAXLEN - 1} :
           /\ bandwidth_history = Prefill(n)
           /\ log = Prefill(n)
           /\ total_bytes_sent = (n * (n + 1)) \div 2
    /\ total_bytes_received = 0
    /\ now = 0
    /\ bandwidth = <<>>

\* (sent, received) of the calls followed
HistArgs == {<<1, 0>>, <<2, 2>>}
\* the calls followed: the first ones of a new object and the ones around
\* the filling of the history
Followed(n) ==
    \/ n < MaxCalls
    \/ n >= HISTORY_MAXLEN - 1 /\ n < HISTORY_MAXLEN - 1 + MaxCalls

UpdateBytes ==
    /\ Followed(Len(log))
    /\ \E b \in HistArgs : update_bytes(b[1], b[2])
    /\ UNCHANGED <<impl, server, lockVars, conn, active_connections, tunnel, supVars, dnsVars, procVars,
                   clockVars>>

\* a second passes
Tick ==
    /\ now < MaxTime
    /\ now' = now + 1
    /\ UNCHANGED <<impl, server, lockVars, conn, active_connections, fwdVars, supVars, dnsVars, procVars,
                   bandwidth>>

\* get_bandwidth, line 82: cutoff = now - 5
CUTOFF_SECONDS == 5
\* get_bandwidth, line 89: total_bytes / 5
BANDWIDTH_DIVISOR == 5

\* variant: a sample taken exactly at the cutoff counts as recent
recent_inclusive(h, t) == SelectSeq(h, LAMBDA s : s[2] >= t - CUTOFF_SECONDS)
\* get_bandwidth, lines 83-85: the samples with ts > cutoff
recent(h, t) == SelectSeq(h, LAMBDA s : s[2] > t - CUTOFF_SECONDS)

\* sum(bytes_ for bytes_, _ in recent)
RECURSIVE sum_bytes(_)
sum_bytes(samples) ==
    IF samples = <<>> THEN 0 ELSE Head(samples)[1] + sum_bytes(Tail(samples))

\* get_bandwidth, lines 80-89; the quotient is kept as <<dividend, divisor>>
\* and "return 0" as <<0, 1>>
get_bandwidth(h, t) ==
    IF recent(h, t) = <<>> THEN <<0, 1>>
    ELSE <<sum_bytes(recent(h, t)), BANDWIDTH_DIVISOR>>

GetBandwidth ==
    /\ bandwidth' = [value |-> get_bandwidth(bandwidth_history, now),
                     at |-> now, n |-> Len(log)]
    /\ UNCHANGED <<impl, server, lockVars, conn, active_connections, fwdVars, supVars, dnsVars, procVars,
                   now>>

HistNext ==
    \/ UpdateBytes
    \/ Tick
    \/ GetBandwidth

SpecHist == HistInit /\ [][HistNext]_vars

\* the sum of f[i][1] over the indices in S
RECURSIVE BytesOver(_, _)
BytesOver(f, S) ==
    IF S = {} THEN 0
    ELSE LET i == CHOOSE j \in S : TRUE IN f[i][1] + BytesOver(f, S \ {i})

\* the indices of the last 60 samples appended
Retained(n) == {i \in 1..n : i > n - 60}

Counted(n, t) == {i \in Retained(n) : log[i][2] > t - 5}

\* C30: get_bandwidth returns 0 when no retained sample is newer than
\* now - 5, and otherwise the sum of the bytes of exactly the retained
\* samples newer than now - 5, divided by 5; samples at or before the cutoff
\* and samples dropped from the history do not count
C30_BandwidthOverLast5Seconds ==
    bandwidth # <<>>
        => IF Counted(bandwidth.n, bandwidth.at) = {}
           THEN bandwidth.value[1] = 0
           ELSE bandwidth.value[1] * 5
                    = BytesOver(log, Counted(bandwidth.n, bandwidth.at)) * bandwidth.value[2]

C30_Witness ==
    /\ bandwidth # <<>>
    /\ bandwidth.n > 60
    /\ bandwidth.value[1] > 0
    /\ \E i \in Retained(bandwidth.n) : log[i][2] = bandwidth.at - 5
    /\ \E i \in 1..bandwidth.n : i \notin Retained(bandwidth.n)

\* ====================================================== ProxyStats._lock
\* connection_started, connection_ended and update_bytes called from the
\* handler threads of one process. "self.x += n" is a load of the attribute
\* followed by a store, and another thread can run between the two.
LockInit ==
    /\ impl = "lib"
    /\ conn = [c \in Conns |-> NewConn]
    /\ active_connections = 0
    /\ IdleTunnel
    /\ IdleServer
    /\ StatsInit
    /\ IdleSupervisor
    /\ IdleDns
    /\ IdleProcs
    /\ NoThreads

\* the attributes a method adds to, in the order of its statements, with the
\* amounts
StatCalls ==
    {[op |-> "connection_started", args |-> <<<<"active_connections", 1>>>>],
     [op |-> "connection_ended", args |-> <<<<"active_connections", -1>>>>]}
        \cup {[op |-> "update_bytes",
               args |-> <<<<"total_bytes_sent", b[1]>>, <<"total_bytes_received", b[2]>>>>]
                 : b \in HistArgs}

\* the amount a call adds to attribute a
Added(c, a) ==
    LET S == {i \in 1..Len(c.args) : c.args[i][1] = a} IN
    IF S = {} THEN 0 ELSE c.args[CHOOSE i \in S : TRUE][2]

\* a handler thread calls a method of proxy_stats
StatCall(t) ==
    /\ thread[t].pc = "idle"
    /\ applied.calls < MaxCalls
    /\ \E c \in StatCalls :
           /\ thread' = [thread EXCEPT ![t] =
                            [NewThread EXCEPT !.pc = "acquire", !.op = c.op,
                                              !.args = c.args, !.field = 1]]
           /\ applied' =
                  [calls |-> applied.calls + 1,
                   active_connections |->
                       applied.active_connections + Added(c, "active_connections"),
                   total_bytes_sent |->
                       applied.total_bytes_sent + Added(c, "total_bytes_sent"),
                   total_bytes_received |->
                       applied.total_bytes_received + Added(c, "total_bytes_received"),
                   samples |-> applied.samples + IF c.op = "update_bytes" THEN 1 ELSE 0,
                   contended |-> applied.contended \/ lock # 0]
    /\ UNCHANGED <<impl, server, conn, active_connections, fwdVars, supVars, dnsVars, procVars,
                   clockVars, lock>>

\* variant: the with statement lets a thread in while another holds the lock
lock_free_ignored(l) == TRUE
\* Lock.acquire() returns when no thread holds the lock
lock_free(l) == l = 0

\* "with self._lock:" is entered
Acquire(t) ==
    /\ thread[t].pc = "acquire"
    /\ lock_free(lock)
    /\ lock' = t
    /\ thread' = [thread EXCEPT ![t].pc = "load"]
    /\ UNCHANGED <<impl, server, conn, active_connections, fwdVars, supVars, dnsVars, procVars,
                   clockVars, applied>>

\* the value of attribute a of the ProxyStats object
attribute(a) ==
    CASE a = "active_connections" -> active_connections
      [] a = "total_bytes_sent" -> total_bytes_sent
      [] a = "total_bytes_received" -> total_bytes_received

\* "self.x += n", first half: the attribute is loaded
Load(t) ==
    /\ thread[t].pc = "load"
    /\ thread' = [thread EXCEPT
                      ![t].tmp = attribute(thread[t].args[thread[t].field][1]),
                      ![t].pc = "store"]
    /\ UNCHANGED <<impl, server, conn, active_connections, fwdVars, supVars, dnsVars, procVars,
                   clockVars, lock, applied>>

\* "self.x += n", second half: the sum is stored; then the next statement
Store(t) ==
    /\ thread[t].pc = "store"
    /\ LET a == thread[t].args[thread[t].field][1]
           v == thread[t].tmp + thread[t].args[thread[t].field][2] IN
       /\ active_connections' = IF a = "active_connections" THEN v ELSE active_connections
       /\ total_bytes_sent' = IF a = "total_bytes_sent" THEN v ELSE total_bytes_sent
       /\ total_bytes_received' =
              IF a = "total_bytes_received" THEN v ELSE total_bytes_received
    /\ thread' = [thread EXCEPT
                      ![t].tmp = 0,
                      ![t].field = IF @ < Len(thread[t].args) THEN @ + 1 ELSE 0,
                      ![t].pc = IF thread[t].field < Len(thread[t].args) THEN "load"
                                ELSE IF thread[t].op = "update_bytes" THEN "append"
                                ELSE "release"]
    /\ UNCHANGED <<impl, server, conn, tunnel, bandwidth_history, log, supVars, dnsVars, procVars,
                   clockVars, lock, applied>>

\* update_bytes, line 71: the sample is appended
AppendSample(t) ==
    /\ thread[t].pc = "append"
    /\ LET s == <<thread[t].args[1][2] + thread[t].args[2][2], now>> IN
       /\ bandwidth_history' = append_sample(bandwidth_history, s)
       /\ log' = Append(log, s)
    /\ thread' = [thread EXCEPT ![t].pc = "release"]
    /\ UNCHANGED <<impl, server, conn, active_connections, tunnel, total_bytes_sent,
                   total_bytes_received, supVars, dnsVars, procVars, clockVars, lock,
                   applied>>

\* the with statement is left: the lock is released and the method returns
Release(t) ==
    /\ thread[t].pc = "release"
    /\ lock' = 0
    /\ thread' = [thread EXCEPT ![t] = NewThread]
    /\ UNCHANGED <<impl, server, conn, active_connections, fwdVars, supVars, dnsVars, procVars,
                   clockVars, applied>>

LockNext ==
    \E t \in StatThreads :
        \/ StatCall(t)
        \/ Acquire(t)
        \/ Load(t)
        \/ Store(t)
        \/ AppendSample(t)
        \/ Release(t)

SpecLock == LockInit /\ [][LockNext]_vars

\* no thread is inside a ProxyStats method
Quiet == \A t \in StatThreads : thread[t].pc = "idle"
\* the threads inside a with block
Inside == {t \in StatThreads : thread[t].pc \in {"load", "store", "append", "release"}}

\* C28: whatever the interleaving of connection_started, connection_ended and
\* update_bytes calls of the handler threads, one call at most is inside its
\* with block at a time, and once all calls have returned every counter holds
\* its initial value plus the amounts of all calls: no update is lost
C28_NoLostUpdate ==
    /\ Cardinality(Inside) <= 1
    /\ Quiet => /\ active_connections = applied.active_connections
                /\ total_bytes_sent = applied.total_bytes_sent
                /\ total_bytes_received = applied.total_bytes_received
                /\ Len(log) = applied.samples

C28_Witness ==
    /\ Quiet
    /\ applied.contended
    /\ applied.calls > 1
    /\ active_connections # 0 \/ total_bytes_sent > 1

\* ============================================ DNSResolver: cache and errors
\* C31: under any interleaving of resolve() calls from different threads, a
\* cache entry that was written is never overwritten with another address
\* and never removed
C31_CacheEntryFinal ==
    [][\A d \in Domains :
           resolve_cache[d] # "none" => resolve_cache'[d] = resolve_cache[d]]_vars

\* the exception a failed method caught and logged: socket.gaierror in
\* _try_system_dns, the dnspython error in the two resolver methods
underlying_error(a) ==
    IF a.method = "system" THEN "socket.gaierror" ELSE "dns.exception.DNSException"
\* the call has tried every method and the last one has failed
AllFailed(c) == c.n = Len(MethodOrder) /\ c.last.answer = "fail"

\* C32: when the system resolver, the configured resolver and every single
\* nameserver have failed, resolve() raises DNSResolutionError and returns
\* nothing, the error carries the error of the last method that failed, and
\* the step that raises it writes no cache entry
C32_AllFailedRaisesDNSResolutionError ==
    /\ [](\A t \in DnsThreads :
              (AllFailed(call[t]) /\ call[t].pc \in {"returned", "raised"})
                  => /\ call[t].pc = "raised"
                     /\ call[t].result = "none"
                     /\ call[t].exc = "DNSResolutionError"
                     /\ call[t].cause = underlying_error(call[t].last))
    /\ [][\A t \in DnsThreads :
              (AllFailed(call'[t]) /\ call'[t].pc = "raised" /\ call[t].pc # "raised")
                  => resolve_cache' = resolve_cache]_vars

\* C38: after any resolve() call, successful or failed, the resolver holds
\* the full list of default nameservers, and the configured-resolver step of
\* every call asks that list
C38_NameserversUnchanged ==
    \A t \in DnsThreads :
        /\ call[t].pc \in {"returned", "raised"} => nameservers = DEFAULT_NAMESERVERS
        /\ call[t].last.method = "configured" => call[t].last.servers = DEFAULT_NAMESERVERS

\* ================================================================ run_server
\* core/lib/proxy_server.py lines 66-110 and core/proxy.py lines 280-312:
\* one worker process from its first statement to its return.

\* interface names, character by character
Chars(s) ==
    CASE s = "lo0" -> <<"l", "o", "0">>
      [] s = "en0" -> <<"e", "n", "0">>
      [] s = "eth0" -> <<"e", "t", "h", "0">>
      [] s = "wlan0" -> <<"w", "l", "a", "n", "0">>
      [] s = "wlp2s0" -> <<"w", "l", "p", "2", "s", "0">>
      [] s = "tun0" -> <<"t", "u", "n", "0">>
      [] s = "bridge100" -> <<"b", "r", "i", "d", "g", "e", "1", "0", "0">>
      [] s = "Wi-Fi" -> <<"W", "i", "-", "F", "i">>
      [] s = "en" -> <<"e", "n">>
      [] s = "wlan" -> <<"w", "l", "a", "n">>
      [] s = "wifi" -> <<"w", "i", "f", "i">>
      [] s = "eth" -> <<"e", "t", "h">>
\* one address of one interface, as psutil reports it
Addr(name, family, address) == [name |-> name, family |-> family, address |-> address]
Loopback == Addr("lo0", "AF_INET", "127.0.0.1")
\* psutil.net_if_addrs() on the machines the proxy is run on
NetIfAddrs ==
    {{Loopback, Addr("en0", "AF_INET", "192.168.1.100")},
     {Loopback, Addr("wlan0", "AF_INET", "192.168.1.100")},
     {Loopback, Addr("wlp2s0", "AF_INET", "192.168.1.100")},
     {Loopback, Addr("eth0", "AF_INET", "192.168.1.100"), Addr("tun0", "AF_INET", "10.8.0.2")},
     {Loopback, Addr("en0", "AF_INET", "192.168.1.100"),
      Addr("bridge100", "AF_INET", "192.168.2.1")},
     {Loopback, Addr("Wi-Fi", "AF_INET", "192.168.1.100")},
     {Loopback, Addr("en0", "AF_LINK", "aa:bb:cc:00:11:22"), Addr("en0", "AF_INET6", "fe80::1")}}
\* the host argument of run_server
Hosts == {"192.168.1.100", "192.168.2.1", "10.8.0.2", "127.0.0.1", "fe80::1"}

\* str.startswith(prefix) and str.startswith(tuple of prefixes)
startswith(s, prefix) ==
    /\ Len(Chars(s)) >= Len(Chars(prefix))
    /\ SubSeq(Chars(s), 1, Len(Chars(prefix))) = Chars(prefix)
WIFI_PREFIXES == {"en", "wlan", "wifi", "eth"}
startswith_any(s, prefixes) == \E p \in prefixes : startswith(s, p)

\* variant: any interface that has the address passes the check
is_wifi_interface_any_name(ip, addrs) ==
    \E a \in addrs : a.family = "AF_INET" /\ a.address = ip
\* is_wifi_interface, lines 66-73
is_wifi_interface(ip, addrs) ==
    \E a \in addrs :
        /\ startswith_any(a.name, WIFI_PREFIXES)
        /\ a.family = "AF_INET"
        /\ a.address = ip

\* run_server at its first statement; assigned: the name "server" holds a
\* SocksProxy; sock: the listening socket; accepted: connections accepted
NewServer(host, addrs) ==
    [pc |-> "check", host |-> host, addrs |-> addrs, assigned |-> FALSE,
     sock |-> "none", accepted |-> 0, trace |-> <<>>, exc |-> "none"]

RunInit ==
    /\ impl \in {"lib", "proxy"}
    /\ conn = [c \in Conns |-> NewConn]
    /\ active_connections = 0
    /\ IdleTunnel
    /\ StatsInit
    /\ IdleSupervisor
    /\ IdleDns
    /\ IdleProcs
    /\ IdleThreads
    /\ \E host \in Hosts, addrs \in NetIfAddrs : server = NewServer(host, addrs)

Did(s, events) == [s EXCEPT !.trace = @ \o events]
RunFrame ==
    UNCHANGED <<impl, conn, active_connections, fwdVars, supVars, dnsVars, procVars,
                clockVars, lockVars>>

\* lines 85-88: the interface check; on failure the error is logged and
\* printed and run_server returns through its finally block
CheckInterface ==
    /\ server.pc = "check"
    /\ server' = IF is_wifi_interface(server.host, server.addrs)
                 THEN [Did(server, <<"check">>) EXCEPT !.pc = "privilege"]
                 ELSE [Did(server, <<"check", "log_error">>) EXCEPT !.pc = "finally"]
    /\ RunFrame

\* lines 90-96: the warning when not run as root
CheckPrivilege ==
    /\ server.pc = "privilege"
    /\ \E root \in BOOLEAN :
           server' = [Did(server, IF root THEN <<>> ELSE <<"warn">>)
                          EXCEPT !.pc = "construct"]
    /\ RunFrame

\* line 98: SocksProxy((host, port), SocksHandler). TCPServer.__init__ makes
\* the socket, binds and listens; when bind or listen raises it closes the
\* socket and raises on, and the name "server" is left as it was
Construct ==
    /\ server.pc = "construct"
    /\ \E io \in {"ok", "socket_fail", "bind_fail"} :
           server' =
               CASE io = "ok" ->
                        [Did(server, <<"socket", "bind", "listen">>)
                             EXCEPT !.pc = "serve", !.sock = "listening", !.assigned = TRUE]
                 [] io = "socket_fail" ->
                        [server EXCEPT !.pc = "finally", !.exc = "OSError"]
                 [] io = "bind_fail" ->
                        [Did(server, <<"socket", "bind", "close">>)
                             EXCEPT !.pc = "finally", !.sock = "closed", !.exc = "OSError"]
    /\ RunFrame

\* line 100: serve_forever accepts a connection and hands it to a thread
ServeAccept ==
    /\ server.pc = "serve"
    /\ server.accepted < MaxConns
    /\ server' = [server EXCEPT !.accepted = @ + 1]
    /\ RunFrame

\* lines 101-105: KeyboardInterrupt anywhere in the try block, or an
\* exception out of serve_forever
RunRaises ==
    /\ \/ /\ server.pc \in {"check", "privilege", "construct", "serve"}
          /\ server' = [server EXCEPT !.pc = "finally", !.exc = "KeyboardInterrupt"]
       \/ /\ server.pc = "serve"
          /\ server' = [server EXCEPT !.pc = "finally", !.exc = "Exception"]
    /\ RunFrame

\* lines 106-110: "if server: server.server_close()"; in core/proxy.py
\* (lines 298-302) server.server_close() on a name that may be unbound, the
\* NameError swallowed by the bare except
RunFinally ==
    /\ server.pc = "finally"
    /\ server' = IF server.assigned
                 THEN [Did(server, <<"close">>) EXCEPT !.pc = "exited", !.sock = "closed"]
                 ELSE [server EXCEPT !.pc = "exited"]
    /\ RunFrame

RunNext ==
    \/ CheckInterface
    \/ CheckPrivilege
    \/ Construct
    \/ ServeAccept
    \/ RunRaises
    \/ RunFinally

SpecRun == RunInit /\ [][RunNext]_vars

\* no interface with an allow-listed name prefix has the address
NotOnAllowedInterface(ip, addrs) ==
    ~\E a \in addrs :
         /\ a.address = ip
         /\ \/ startswith(a.name, "en") \/ startswith(a.name, "wlan")
            \/ startswith(a.name, "wifi") \/ startswith(a.name, "eth")

\* C33: a worker whose host address is on no interface with an allow-listed
\* name prefix logs the error and exits, never makes, binds or listens on a
\* socket and never accepts a connection; and whenever a worker binds, the
\* interface check was made before
C33_NotWifiExitsBeforeBind ==
    /\ NotOnAllowedInterface(server.host, server.addrs) =>
           /\ server.sock = "none"
           /\ server.accepted = 0
           /\ Range(server.trace) \cap {"socket", "bind", "listen"} = {}
           /\ server.pc \in {"check", "finally", "exited"}
           /\ "check" \in Range(server.trace) => server.trace = <<"check", "log_error">>
    /\ "bind" \in Range(server.trace) =>
           /\ Before(server.trace, "check", "bind")
           /\ is_wifi_interface(server.host, server.addrs)

C33_Witness ==
    /\ server.pc = "exited"
    /\ server.host = "192.168.2.1"
    /\ \E a \in server.addrs : a.address = server.host /\ a.name = "bridge100"
    /\ NotOnAllowedInterface(server.host, server.addrs)
    /\ server.trace = <<"check", "log_error">>

\* ======================================================= replies and sockets
\* the positions of the SOCKS replies among the messages written to the client
Replies(s) == {i \in DOMAIN s.sent : IsReply(s.sent[i])}

\* C34: the handler writes at most one SOCKS reply to the client of a
\* connection, and no failure reply after a success reply, whatever fails
\* later while the tunnel is forwarded
C34_AtMostOneReply ==
    \A c \in Conns :
        /\ Cardinality(Replies(conn[c])) <= 1
        /\ \A i, j \in Replies(conn[c]) :
               (i < j /\ conn[c].sent[i][2] = RESP_SUCCESS) => conn[c].sent[j][2] = RESP_SUCCESS

\* C35: when the handler of a connection returns without having established
\* a tunnel, the outbound socket it made and bound is closed, whether the
\* connect failed, the name was not resolved, or the success reply could not
\* be sent
C35_OutboundSocketClosed ==
    \A c \in Conns :
        (Returned(c) /\ ~Forwarded(c) /\ "bind" \in Range(conn[c].trace))
            => conn[c].remote = "closed"

\* ==================================================== supervisor: shutdown
\* C36: wherever a shutdown signal can reach the supervisor, every worker
\* that was started and is running is in the list "processes" that the
\* cleanup walks, so that the cleanup terminates it
C36_StartedWorkersTracked ==
    \A w \in WorkerIds :
        (Started(w) /\ ~worker[w].joined /\ is_alive(w)) => w \in Range(processes)

\* the Process objects that exist
Made == {w \in WorkerIds : worker[w].state # "none"}

\* C37: after the shutdown signal the supervisor makes and starts no worker
\* and replaces no entry of its list, also when the cleanup finds a worker
\* dead
C37_NoRespawnAfterShutdown ==
    [][supervisor.interrupted =>
           /\ {w \in WorkerIds : worker'[w].state # "none"} = Made
           /\ processes' = processes
           /\ supervisor'.interrupted]_vars

C37_Witness ==
    /\ supervisor.interrupted
    /\ supervisor.pc = "stopped"
    /\ \E w \in Range(processes) :
           /\ worker[w].state = "exited"
           /\ ~worker[w].term
           /\ \A n \in Made : worker[n].replaces # w

\* C39: the handler makes an outbound socket, and attempts a connect, only
\* for a connection whose greeting had version 5 and whose request header
\* had version 5, command CONNECT and address type 1 or 3
C39_OutboundOnlyForValidConnect ==
    \A c \in Conns :
        (Running(c) /\ (conn[c].remote # "none" \/ ConnectAttempted(c)))
            => /\ conn[c].ver = SOCKS_VERSION
               /\ conn[c].hver = SOCKS_VERSION
               /\ conn[c].cmd = CONNECT_CMD
               /\ conn[c].atyp \in {ADDR_TYPE_IPV4, ADDR_TYPE_DOMAIN}

====
